---------------------------- MODULE Spec2Model ----------------------------
(***************************************************************************)
(* A model of the Dotfiles repository's Python tools:                      *)
(*   - the LLDB_Formatters package (helpers.py, config.py, linear.py,      *)
(*     tree.py, graph.py): summaries and traversals over debuggee memory,  *)
(*     and the formatter_config command;                                   *)
(*   - flatten_dots.py: the Stow -> flat structure copier;                 *)
(*   - utils/create_stow_dirs.py: the ~/.config -> Stow package copier;    *)
(*   - fix_all_titles.py, fnm_cleanup.py, images.py and                    *)
(*     update_frontmatter.py: the history, symlink and Markdown utilities; *)
(*   - sketchybar's helpers/click_handler.py.                              *)
(*                                                                         *)
(* Debuggee memory is a finite set of node addresses with pointer fields.  *)
(* The code only compares addresses for equality and with 0, so a value    *)
(* emitted for a node is represented by the node's address.                *)
(***************************************************************************)
EXTENDS Integers, Sequences, FiniteSets, TLC

(***************************************************************************)
(* Bounds of the model.                                                    *)
(***************************************************************************)
\* Longest linked list / longest tree spine (one more than the summary limit).
MaxLen == 31
\* Number of addresses of the exhaustively enumerated small node graphs.
MaxNodes == 3
\* Longest list, and most neighbours, of a formatter_config session.
MaxCfgLen == 3
\* Number of addresses of a tree of a formatter_config session.
MaxCfgNodes == 2
\* Longest value argument of formatter_config, in characters.
MaxTokenLen == 2
\* Depth of the directory tree inside a Stow package.
MaxDepth == 2
\* Longest answer to the overwrite prompt, in characters.
MaxAnswerLen == 3
\* Longest run of letters of a message text given to generate_title.
MaxTextLen == 62
\* Most lines of history.jsonl, and of a conversation file.
MaxHistory == 2
MaxConvLines == 2
\* Most entries of the fnm_multishells directory.
MaxEntries == 2
\* Most parts of the body of a markdown file.
MaxParts == 2
\* Number of addresses a member of the inspected tree node may point to.
MaxAddr == 2
\* Largest index asked of get_child_at_index.
MaxIndex == 3
\* Largest count of outdated packages the status bar reports.
MaxCount == 3

(***************************************************************************)
(* Program constants.                                                      *)
(***************************************************************************)
\* helpers.py: g_summary_max_items = 30
g_summary_max_items == 30
\* helpers.py: g_graph_max_neighbors = 10
g_graph_max_neighbors == 10
\* fix_all_titles.py, generate_title: the 60 of 'len(title) > 60', 'title[:60]'
TitleCut == 60
\* The entry '[CYCLE DETECTED]' / '[CYCLE]' of a summary (no node has address 0).
CYCLE == 0
\* get_child_member_by_names(...) found no member: Python's None.
None == -1

VARIABLES
    \* ----- the debuggee: the variable under inspection and its memory -----
    kind,          \* "list" | "tree" | "graphnode" | "treenode" | "none"
    head,          \* the list's head member: None, 0 or an address
    next,          \* next[a]: the next pointer of list node a
    node_fields,   \* the field names of the list's node type
    root,          \* the tree's root member: None, 0 or an address
    left,          \* left[a], right[a]: the pointers of tree node a
    right,
    valid,         \* the addresses whose Dereference() is valid
    neighbors,     \* graph node: its neighbours, each TRUE iff dereferenceable
    \* ----- the Python package: one namespace per module -----
    modules,       \* modules[m][g]: the binding of global g in module m
    \* ----- the call in progress -----
    pc,            \* "idle" | "list_loop" | "list_end" | "tree_run" | "done"
    op,            \* the operation running or last run
    node,          \* get_summary: the local 'node'
    count,         \* get_summary: the local 'count'
    visited,       \* the local 'visited' / 'visited_addrs'
    summary,       \* get_summary: the local 'summary'
    max_items,     \* the local 'max_items' / 'max_nodes' / 'max_neighbors'
    stack,         \* the recursion stack of a tree traversal
    nodes_list,    \* collectors: nodes_list; TreeSummary: summary_parts
    ret,           \* what the operation returned
    steps,         \* number of steps of the call in progress
    configured,    \* the settings a successful formatter_config has set
    \* ----- GenericTreeProvider -----
    valobj,        \* the tree node under inspection: its members
    provider,      \* the provider object's fields
    fresh,         \* update() ran since the node last changed
    answer,        \* the last num_children / get_child_at_index answer
    \* ----- flatten_dots, create_stow_dirs -----
    fs,            \* the filesystem: source and destination trees
    fs0,           \* the filesystem when the run started
    args,          \* the command line: force, dry_run
    fpc,           \* "idle" | "start" | "loop" | "done" | "exit1" | "crashed"
    todo,          \* stow_packages not yet processed
    report,        \* per package: what the run printed for it
    \* ----- the other scripts -----
    stdin,         \* create_stow_dirs: what the last input() call read
    \* ----- fix_all_titles -----
    history,       \* the lines of ~/.claude/history.jsonl
    history0,      \* the lines when the run started
    conv,          \* conv[s]: the conversation file of session s, or NoFile
    updates,       \* process_conversations: the dict 'updates'
    tpc,           \* "idle" | "start" | "scanned" | "done"
    first_msg,     \* generate_title: its argument
    new_title,     \* generate_title: its result
    \* ----- fnm_cleanup -----
    links,         \* the fnm_multishells directory: its entries, or no directory
    links0,        \* the directory when the run started
    lpc,           \* "idle" | "start" | "loop" | "done"
    ltodo,         \* the entries iterdir() has not given yet
    unlinked,      \* the entries the run has unlinked
    \* ----- images.py, update_frontmatter.py: one process_file call -----
    script,        \* "images" | "frontmatter" | "none"
    md_file,       \* the markdown file: its content
    md_file0,      \* the content when the call started
    access,        \* what the environment allows: reading, writing, ...
    backups,       \* the contents of the backup copies made by the call
    backup_path,   \* process_file: the local 'backup_path'
    bpc,           \* "idle" | "start" | "backup" | "update" | "done"
    \* click_handler.py
    argv,          \* sys.argv
    outdated,      \* main: the local 'count'
    proc,          \* the terminal process: "none" | "running" | "terminated"
    ran,           \* the commands started so far and the terminal's exit, in order
    cpc            \* "idle" | "start" | "wait" | "exit 0" | "exit 1" | "raised"

memVars  == <<kind, head, next, node_fields, root, left, right, valid, neighbors>>
callVars == <<pc, op, node, count, visited, summary, max_items, stack,
              nodes_list, ret, steps>>
lldbVars == <<memVars, modules, callVars, configured>>
provVars == <<valobj, provider, fresh, answer>>
flatVars == <<fs, fs0, args, fpc, todo, report>>
titleVars == <<history, history0, conv, updates, tpc, first_msg, new_title>>
fnmVars  == <<links, links0, lpc, ltodo, unlinked>>
backupVars == <<script, md_file, md_file0, access, backups, backup_path, bpc>>
clickVars == <<argv, outdated, proc, ran, cpc>>
toolVars == <<stdin, titleVars, fnmVars, backupVars, clickVars>>
\* What the actions of one script leave alone.
exceptFlat   == <<lldbVars, provVars, toolVars>>
exceptStow   == <<lldbVars, provVars, titleVars, fnmVars, backupVars, clickVars>>
exceptTitles == <<lldbVars, provVars, flatVars, stdin, fnmVars, backupVars, clickVars>>
exceptFnm    == <<lldbVars, provVars, flatVars, stdin, titleVars, backupVars, clickVars>>
exceptClick  == <<lldbVars, provVars, flatVars, stdin, titleVars, fnmVars, backupVars>>
exceptBackup == <<lldbVars, provVars, flatVars, stdin, titleVars, fnmVars, clickVars>>
vars     == <<lldbVars, provVars, flatVars, toolVars>>

(***************************************************************************)
(* helpers.py                                                              *)
(***************************************************************************)
\* get_raw_pointer: 0 for a missing value, otherwise the pointer's address.
get_raw_pointer(value) == IF value = None THEN 0 ELSE value

\* The module namespaces after 'command script import LLDB_Formatters':
\* every 'from .helpers import g_...' binds the name in the importing module.
ImportedModules ==
    [helpers |-> [summary_max_items |-> g_summary_max_items,
                  graph_max_neighbors |-> g_graph_max_neighbors],
     config  |-> [summary_max_items |-> g_summary_max_items,
                  graph_max_neighbors |-> g_graph_max_neighbors],
     linear  |-> [summary_max_items |-> g_summary_max_items],
     tree    |-> [summary_max_items |-> g_summary_max_items],
     graph   |-> [graph_max_neighbors |-> g_graph_max_neighbors]]


\* get_child_member_by_names / type_has_field over a node type: the first of
\* the candidate names that is a field, or "" (Python's None) when none is.
RECURSIVE FirstField(_, _)
FirstField(names, fields) ==
    IF names = <<>> THEN ""
    ELSE IF Head(names) \in fields THEN Head(names)
    ELSE FirstField(Tail(names), fields)

(***************************************************************************)
(* The state of the session when no call is in progress.                   *)
(***************************************************************************)
NoRet == [text |-> "", items |-> <<>>, truncated |-> FALSE]

IdleCall ==
    /\ pc = "idle" /\ op = "none"
    /\ node = 0 /\ count = 0 /\ visited = {} /\ summary = <<>>
    /\ max_items = 0 /\ stack = <<>> /\ nodes_list = <<>>
    /\ ret = NoRet /\ steps = 0

NoList == head = None /\ next = <<>> /\ node_fields = {}
NoTree == root = None /\ left = <<>> /\ right = <<>>
NoGraphNode == neighbors = <<>>
NoAnswer == [call |-> "none", index |-> 0, member |-> "", value |-> None]
NoProvider ==
    /\ valobj = [left |-> None, right |-> None,
                 has_children |-> FALSE, children |-> <<>>]
    /\ provider = [is_nary |-> FALSE, num_children_val |-> 0,
                   left_member |-> FALSE, right_member |-> FALSE,
                   children_member |-> FALSE]
    /\ fresh = FALSE
    /\ answer = NoAnswer
NoFlatten ==
    /\ fs = [src |-> [type |-> "absent"], dst |-> [type |-> "absent"]]
    /\ fs0 = fs
    /\ args = [force |-> FALSE, dry_run |-> FALSE]
    /\ fpc = "idle" /\ todo = {} /\ report = <<>>

Range(seq) == {seq[i] : i \in DOMAIN seq}

NoInput == [kind |-> "none", text |-> <<>>]
NoTitles ==
    /\ history = <<>> /\ history0 = <<>> /\ conv = <<>> /\ updates = <<>>
    /\ tpc = "idle" /\ first_msg = <<>> /\ new_title = <<>>
NoDirectory == [is_dir |-> FALSE, entries |-> <<>>]
NoFnm ==
    /\ links = NoDirectory /\ links0 = NoDirectory
    /\ lpc = "idle" /\ ltodo = {} /\ unlinked = {}
NoStow == stdin = NoInput
NoAccess == [readable |-> FALSE, writable |-> FALSE, backup_dir |-> FALSE,
             unchanged_hash |-> FALSE, image_found |-> FALSE]
NoBackup ==
    /\ script = "none" /\ md_file = <<>> /\ md_file0 = <<>>
    /\ access = NoAccess /\ backups = {} /\ backup_path = ""
    /\ bpc = "idle"
NoClick ==
    /\ argv = <<>> /\ outdated = 0 /\ proc = "none" /\ ran = <<>>
    /\ cpc = "idle"
NoTools == NoStow /\ NoTitles /\ NoFnm /\ NoBackup /\ NoClick

(***************************************************************************)
(* Debuggee inputs: linked lists.                                          *)
(* Following next from head visits a chain of distinct nodes that ends in  *)
(* null or in a pointer back into the chain; the chain's nodes are named   *)
(* 1..len in the order they are met.                                       *)
(***************************************************************************)
FieldSets == {{"next", "value"}, {"m_next", "data", "prev"},
              {"value", "prev"}, {"next"}}

ListInputs(maxlen) ==
    \E len \in 0..maxlen :
      \E back \in 0..len, bad \in 0..len :
        /\ head \in (IF len = 0 THEN {None, 0} ELSE {1})
        /\ next = [i \in 1..len |-> IF i < len THEN i + 1 ELSE back]
        /\ valid = (1..len) \ {bad}
        /\ node_fields \in (IF len = 0 THEN {{"next", "value"}} ELSE FieldSets)

(***************************************************************************)
(* linear.py: LinearContainerProvider                                      *)
(***************************************************************************)
\* update(): the member names found on the node type, when head can be
\* dereferenced.
LinearUpdate ==
    IF head # None /\ get_raw_pointer(head) # 0 /\ head \in valid
    THEN [next_ptr_name |-> FirstField(<<"next", "m_next", "_next", "pNext">>,
                                       node_fields),
          value_name    |-> FirstField(<<"value", "val", "data", "m_data", "key">>,
                                       node_fields)]
    ELSE [next_ptr_name |-> "", value_name |-> ""]

\* get_summary after the loop: join the entries, mark a truncated list.
ListFinish(entries, n) ==
    [text |-> "summary", items |-> entries,
     truncated |-> get_raw_pointer(n) # 0]

\* get_summary up to the loop: update(), the early returns, the locals.
GetSummaryBegin ==
    /\ kind = "list" /\ pc = "idle"
    /\ op' = "list" /\ steps' = 1
    /\ LET names == LinearUpdate IN
       IF head = None THEN
            /\ ret' = [NoRet EXCEPT !.text = "Could not find head pointer"]
            /\ pc' = "done"
            /\ UNCHANGED <<node, count, visited, summary, max_items>>
       ELSE IF get_raw_pointer(head) = 0 THEN
            /\ ret' = [NoRet EXCEPT !.text = "summary"]
            /\ pc' = "done"
            /\ UNCHANGED <<node, count, visited, summary, max_items>>
       ELSE IF names.next_ptr_name = "" \/ names.value_name = "" THEN
            /\ ret' = [NoRet EXCEPT !.text = "Cannot determine node structure (val/next)"]
            /\ pc' = "done"
            /\ UNCHANGED <<node, count, visited, summary, max_items>>
       ELSE
            /\ summary' = <<>> /\ node' = head /\ count' = 0
            /\ max_items' = modules["linear"].summary_max_items
            /\ visited' = {}
            /\ pc' = "list_loop"
            /\ UNCHANGED ret
    /\ UNCHANGED <<memVars, modules, stack, nodes_list, configured>>
    /\ UNCHANGED <<provVars, flatVars, toolVars>>

\* One evaluation of the while condition and, when it holds, one iteration;
\* when the loop ends, the rest of get_summary.
MutGetSummaryLoopBody ==
    /\ IF get_raw_pointer(node) # 0 /\ count < max_items THEN
            /\ visited' = visited \cup {node}
            /\ IF node \notin valid THEN
                    /\ ret' = ListFinish(summary, node) /\ pc' = "done"
                    /\ UNCHANGED <<summary, node, count>>
               ELSE
                    /\ summary' = Append(summary, node)
                    /\ node' = next[node]
                    /\ count' = count + 1
                    /\ UNCHANGED <<ret, pc>>
       ELSE
            /\ ret' = ListFinish(summary, node) /\ pc' = "done"
            /\ UNCHANGED <<summary, node, count, visited>>
GetSummaryLoopBody ==
    /\ IF get_raw_pointer(node) # 0 /\ count < max_items THEN
            IF node \in visited THEN
                /\ summary' = Append(summary, CYCLE)
                /\ ret' = ListFinish(summary', node) /\ pc' = "done"
                /\ UNCHANGED <<node, count, visited>>
            ELSE
                /\ visited' = visited \cup {node}
                /\ IF node \notin valid THEN
                        /\ ret' = ListFinish(summary, node) /\ pc' = "done"
                        /\ UNCHANGED <<summary, node, count>>
                   ELSE
                        /\ summary' = Append(summary, node)
                        /\ node' = next[node]
                        /\ count' = count + 1
                        /\ UNCHANGED <<ret, pc>>
       ELSE
            /\ ret' = ListFinish(summary, node) /\ pc' = "done"
            /\ UNCHANGED <<summary, node, count, visited>>

GetSummaryLoop ==
    /\ pc = "list_loop"
    /\ steps' = steps + 1
    /\ GetSummaryLoopBody
    /\ UNCHANGED <<memVars, modules, op, max_items, stack, nodes_list, configured>>
    /\ UNCHANGED <<provVars, flatVars, toolVars>>

InitList ==
    /\ kind = "list" /\ ListInputs(MaxLen) /\ NoTree /\ NoGraphNode
    /\ modules = ImportedModules /\ configured = <<>>
    /\ IdleCall /\ NoProvider /\ NoFlatten /\ NoTools

NextList == GetSummaryBegin \/ GetSummaryLoop

SpecList == InitList /\ [][NextList]_vars


(***************************************************************************)
(* Debuggee inputs: trees and, since nothing forces the pointers of a      *)
(* debuggee to form a tree, arbitrary node graphs.                         *)
(*   - every graph over MaxNodes addresses, with at most one address that  *)
(*     cannot be dereferenced;                                             *)
(*   - spines, which are long enough to reach the summary limit: a chain   *)
(*     of nodes through one side, ending in null or in a pointer back into *)
(*     the chain; the other side of every chain node but the last is null, *)
(*     or points to the root, or to a leaf of its own; at most MaxLen      *)
(*     nodes in all.                                                       *)
(***************************************************************************)
SmallGraphs(n) ==
    /\ root \in {None, 0, 1}
    /\ IF get_raw_pointer(root) = 0
       THEN /\ left = [a \in 1..n |-> 0] /\ right = [a \in 1..n |-> 0]
            /\ valid = 1..n
       ELSE /\ left \in [1..n -> 0..n] /\ right \in [1..n -> 0..n]
            /\ \E bad \in 0..n : valid = (1..n) \ {bad}

Spines(minlen, maxlen) ==
    \E len \in minlen..maxlen :
      \E back \in 0..len, side \in {"left", "right"},
         other \in {"null", "root", "leaf"} :
        LET size  == IF other = "leaf" THEN 2 * len - 1 ELSE len
            chain == [i \in 1..size |-> IF i < len THEN i + 1
                                        ELSE IF i = len THEN back ELSE 0]
            rest  == [i \in 1..size |-> IF i >= len \/ other = "null" THEN 0
                                        ELSE IF other = "root" THEN 1
                                        ELSE len + i]
        IN  /\ size <= maxlen
            /\ root = 1
            /\ left = (IF side = "left" THEN chain ELSE rest)
            /\ right = (IF side = "right" THEN chain ELSE rest)
            /\ valid = 1..size

(***************************************************************************)
(* tree.py: helpers                                                        *)
(***************************************************************************)
\* _safe_get_node_from_pointer: the node struct (named by its address), or
\* None when the pointer cannot be dereferenced.
safe_get_node_from_pointer(node_ptr) ==
    IF node_ptr = None \/ node_ptr \notin valid THEN None ELSE node_ptr

\* _get_node_children: the non-null child pointers, left before right.  (The
\* n-ary branch filters a 'children' container the same way.)
get_node_children(node_struct) ==
    (IF get_raw_pointer(left[node_struct]) # 0
        THEN <<left[node_struct]>> ELSE <<>>)
    \o (IF get_raw_pointer(right[node_struct]) # 0
        THEN <<right[node_struct]>> ELSE <<>>)

(***************************************************************************)
(* The recursion of a traversal: a stack of frames.  A frame is a call of  *)
(* the recursive function on node_ptr; phase "enter" is the call before    *)
(* its body ran, "loop" is the call inside 'for child in children' about   *)
(* to take children[i], "root" (in-order) is the call back from its first  *)
(* child.  A step runs the top frame up to its next call or its return.    *)
(***************************************************************************)
Call(node_ptr) == [node_ptr |-> node_ptr, phase |-> "enter",
                   children |-> <<>>, i |-> 1]
Top(st) == st[Len(st)]
Return(st) == SubSeq(st, 1, Len(st) - 1)
\* The top frame continues as frame f.
Continue(st, f) == [st EXCEPT ![Len(st)] = f]
\* The top frame, now f, calls the function on node_ptr.
Recurse(st, f, node_ptr) == Append(Continue(st, f), Call(node_ptr))

\* 'for child in children: f(child, ...)' of the top frame, from index i.
ForChildren(st, out, seen) ==
    LET f == Top(st) IN
    IF f.i <= Len(f.children)
    THEN [stack |-> Recurse(st, [f EXCEPT !.i = f.i + 1], f.children[f.i]),
          out |-> out, seen |-> seen]
    ELSE [stack |-> Return(st), out |-> out, seen |-> seen]

\* _collect_nodes_preorder
MutCollectPreorder(st, out, seen) ==
    LET f == Top(st) IN
    IF f.phase = "enter" THEN
        IF get_raw_pointer(f.node_ptr) = 0
        THEN [stack |-> Return(st), out |-> out, seen |-> seen]
        ELSE IF safe_get_node_from_pointer(f.node_ptr) = None
        THEN [stack |-> Return(st), out |-> out,
              seen |-> seen \cup {f.node_ptr}]
        ELSE [stack |-> Continue(st, [f EXCEPT !.phase = "loop",
                          !.children = get_node_children(f.node_ptr)]),
              out |-> Append(out, f.node_ptr),
              seen |-> seen \cup {f.node_ptr}]
    ELSE ForChildren(st, out, seen)
CollectPreorder(st, out, seen) ==
    LET f == Top(st) IN
    IF f.phase = "enter" THEN
        IF get_raw_pointer(f.node_ptr) = 0
        THEN [stack |-> Return(st), out |-> out, seen |-> seen]
        ELSE IF f.node_ptr \in seen
        THEN [stack |-> Return(st), out |-> out, seen |-> seen]
        ELSE IF safe_get_node_from_pointer(f.node_ptr) = None
        THEN [stack |-> Return(st), out |-> out,
              seen |-> seen \cup {f.node_ptr}]
        ELSE [stack |-> Continue(st, [f EXCEPT !.phase = "loop",
                          !.children = get_node_children(f.node_ptr)]),
              out |-> Append(out, f.node_ptr),
              seen |-> seen \cup {f.node_ptr}]
    ELSE ForChildren(st, out, seen)

\* _collect_nodes_inorder
CollectInorder(st, out, seen) ==
    LET f == Top(st) IN
    IF f.phase = "enter" THEN
        IF get_raw_pointer(f.node_ptr) = 0
        THEN [stack |-> Return(st), out |-> out, seen |-> seen]
        ELSE IF f.node_ptr \in seen
        THEN [stack |-> Return(st), out |-> out, seen |-> seen]
        ELSE IF safe_get_node_from_pointer(f.node_ptr) = None
        THEN [stack |-> Return(st), out |-> out,
              seen |-> seen \cup {f.node_ptr}]
        ELSE LET children == get_node_children(f.node_ptr)
                 g == [f EXCEPT !.phase = "root", !.children = children,
                                !.i = 2]
             IN  IF children # <<>>
                 THEN [stack |-> Recurse(st, g, children[1]), out |-> out,
                       seen |-> seen \cup {f.node_ptr}]
                 ELSE [stack |-> Continue(st, g), out |-> out,
                       seen |-> seen \cup {f.node_ptr}]
    ELSE IF f.phase = "root" THEN
        [stack |-> Continue(st, [f EXCEPT !.phase = "loop"]),
         out |-> Append(out, f.node_ptr), seen |-> seen]
    ELSE ForChildren(st, out, seen)

\* _collect_nodes_postorder
CollectPostorder(st, out, seen) ==
    LET f == Top(st) IN
    IF f.phase = "enter" THEN
        IF get_raw_pointer(f.node_ptr) = 0
        THEN [stack |-> Return(st), out |-> out, seen |-> seen]
        ELSE IF f.node_ptr \in seen
        THEN [stack |-> Return(st), out |-> out, seen |-> seen]
        ELSE IF safe_get_node_from_pointer(f.node_ptr) = None
        THEN [stack |-> Return(st), out |-> out,
              seen |-> seen \cup {f.node_ptr}]
        ELSE [stack |-> Continue(st, [f EXCEPT !.phase = "loop",
                          !.children = get_node_children(f.node_ptr)]),
              out |-> out, seen |-> seen \cup {f.node_ptr}]
    ELSE IF f.i <= Len(f.children)
    THEN ForChildren(st, out, seen)
    ELSE [stack |-> Return(st), out |-> Append(out, f.node_ptr),
          seen |-> seen]


\* TreeSummary's inner function _pre_order_traverse
MutPreOrderTraverse(st, out, seen, max_nodes) ==
    LET f == Top(st) IN
    IF f.phase = "enter" THEN
        IF get_raw_pointer(f.node_ptr) = 0
        THEN [stack |-> Return(st), out |-> out, seen |-> seen]
        ELSE IF f.node_ptr \in seen
        THEN [stack |-> Return(st), out |-> Append(out, CYCLE), seen |-> seen]
        ELSE IF safe_get_node_from_pointer(f.node_ptr) = None
        THEN [stack |-> Return(st), out |-> out,
              seen |-> seen \cup {f.node_ptr}]
        ELSE IF Len(out) + 1 >= max_nodes
        THEN [stack |-> Return(st), out |-> Append(out, f.node_ptr),
              seen |-> seen \cup {f.node_ptr}]
        ELSE [stack |-> Continue(st, [f EXCEPT !.phase = "loop",
                          !.children = get_node_children(f.node_ptr)]),
              out |-> Append(out, f.node_ptr),
              seen |-> seen \cup {f.node_ptr}]
    ELSE ForChildren(st, out, seen)
PreOrderTraverse(st, out, seen, max_nodes) ==
    LET f == Top(st) IN
    IF f.phase = "enter" THEN
        IF get_raw_pointer(f.node_ptr) = 0 \/ Len(out) >= max_nodes
        THEN [stack |-> Return(st), out |-> out, seen |-> seen]
        ELSE IF f.node_ptr \in seen
        THEN [stack |-> Return(st), out |-> Append(out, CYCLE), seen |-> seen]
        ELSE IF safe_get_node_from_pointer(f.node_ptr) = None
        THEN [stack |-> Return(st), out |-> out,
              seen |-> seen \cup {f.node_ptr}]
        ELSE IF Len(out) + 1 >= max_nodes
        THEN [stack |-> Return(st), out |-> Append(out, f.node_ptr),
              seen |-> seen \cup {f.node_ptr}]
        ELSE [stack |-> Continue(st, [f EXCEPT !.phase = "loop",
                          !.children = get_node_children(f.node_ptr)]),
              out |-> Append(out, f.node_ptr),
              seen |-> seen \cup {f.node_ptr}]
    ELSE ForChildren(st, out, seen)

(***************************************************************************)
(* tree.py: the traversals as steps of the session                         *)
(***************************************************************************)
\* A call _collect_nodes_<order>(root_node_ptr, nodes_list) with a fresh list.
CollectBegin(order) ==
    /\ kind = "tree" /\ pc = "idle"
    /\ op' = order /\ pc' = "tree_run" /\ steps' = 1
    /\ stack' = <<Call(root)>> /\ nodes_list' = <<>> /\ visited' = {}
    /\ UNCHANGED <<memVars, modules, node, count, summary, max_items, ret,
                   configured>>
    /\ UNCHANGED <<provVars, flatVars, toolVars>>

\* The collector runs to its next call or return; the outermost return ends it.
CollectStep(order, r) ==
    /\ pc = "tree_run" /\ op = order
    /\ steps' = steps + 1
    /\ stack' = r.stack /\ nodes_list' = r.out /\ visited' = r.seen
    /\ IF r.stack = <<>>
       THEN pc' = "done" /\ ret' = [NoRet EXCEPT !.text = "nodes", !.items = r.out]
       ELSE UNCHANGED <<pc, ret>>
    /\ UNCHANGED <<memVars, modules, op, node, count, summary, max_items,
                   configured>>
    /\ UNCHANGED <<provVars, flatVars, toolVars>>

PreorderBegin  == CollectBegin("preorder")
InorderBegin   == CollectBegin("inorder")
PostorderBegin == CollectBegin("postorder")
PreorderStep   == CollectStep("preorder", CollectPreorder(stack, nodes_list, visited))
InorderStep    == CollectStep("inorder", CollectInorder(stack, nodes_list, visited))
PostorderStep  == CollectStep("postorder", CollectPostorder(stack, nodes_list, visited))

\* TreeSummary up to the first call of _pre_order_traverse.
TreeSummaryBegin ==
    /\ kind = "tree" /\ pc = "idle"
    /\ op' = "TreeSummary" /\ steps' = 1
    /\ IF root = None \/ get_raw_pointer(root) = 0
       THEN /\ ret' = [NoRet EXCEPT !.text = "Tree is empty"]
            /\ pc' = "done"
            /\ UNCHANGED <<summary, max_items, visited, stack>>
       ELSE /\ summary' = <<>>
            /\ max_items' = modules["tree"].summary_max_items
            /\ visited' = {}
            /\ stack' = <<Call(root)>>
            /\ pc' = "tree_run"
            /\ UNCHANGED ret
    /\ UNCHANGED <<memVars, modules, node, count, nodes_list, configured>>
    /\ UNCHANGED <<provVars, flatVars, toolVars>>

\* _pre_order_traverse runs to its next call or return; after the outermost
\* return TreeSummary joins the parts and marks a summary that hit the limit.
TreeSummaryStep ==
    /\ pc = "tree_run" /\ op = "TreeSummary"
    /\ steps' = steps + 1
    /\ LET r == PreOrderTraverse(stack, summary, visited, max_items) IN
        /\ stack' = r.stack /\ summary' = r.out /\ visited' = r.seen
        /\ IF r.stack = <<>>
           THEN /\ pc' = "done"
                /\ ret' = [text |-> "summary", items |-> r.out,
                           truncated |-> Len(r.out) >= max_items]
           ELSE UNCHANGED <<pc, ret>>
    /\ UNCHANGED <<memVars, modules, op, node, count, max_items, nodes_list,
                   configured>>
    /\ UNCHANGED <<provVars, flatVars, toolVars>>

InitTree ==
    /\ kind = "tree" /\ NoList /\ NoGraphNode
    /\ (SmallGraphs(MaxNodes) \/ Spines(MaxNodes + 1, MaxLen))
    /\ modules = ImportedModules /\ configured = <<>>
    /\ IdleCall /\ NoProvider /\ NoFlatten /\ NoTools

NextTree ==
    \/ PreorderBegin \/ InorderBegin \/ PostorderBegin \/ TreeSummaryBegin
    \/ PreorderStep \/ InorderStep \/ PostorderStep \/ TreeSummaryStep

SpecTree == InitTree /\ [][NextTree]_vars


(***************************************************************************)
(* tree.py: GenericTreeProvider                                            *)
(* The inspected node has members left and right (None when the type has   *)
(* no such member) and, for an n-ary node, a 'children' container.  The    *)
(* provider keeps the SBValues of the members it found; an SBValue reads   *)
(* the debuggee's memory when asked for its pointer.                       *)
(***************************************************************************)
TreeNodes ==
    [left : {None} \cup 0..MaxAddr, right : {None} \cup 0..MaxAddr,
     has_children : {FALSE}, children : {<<>>}]
    \cup
    [left : {None}, right : {None}, has_children : {TRUE},
     children : UNION {[1..n -> 0..MaxAddr] : n \in 0..2}]

\* update()
ProviderUpdate(v) ==
    IF v.has_children
    THEN [is_nary |-> TRUE, num_children_val |-> Len(v.children),
          left_member |-> FALSE, right_member |-> FALSE,
          children_member |-> TRUE]
    ELSE [is_nary |-> FALSE,
          num_children_val |->
              (IF v.left # None /\ get_raw_pointer(v.left) # 0 THEN 1 ELSE 0)
              + (IF v.right # None /\ get_raw_pointer(v.right) # 0 THEN 1 ELSE 0),
          left_member |-> v.left # None, right_member |-> v.right # None,
          children_member |-> FALSE]

\* get_child_at_index(index): the member returned ("" for Python's None) and
\* the pointer it holds.
MutGetChildAtIndex(p, v, index) ==
    IF p.is_nary THEN
        IF p.children_member /\ index + 1 \in DOMAIN v.children
        THEN [member |-> "children", value |-> v.children[index + 1]]
        ELSE [member |-> "", value |-> None]
    ELSE IF p.left_member /\ get_raw_pointer(v.left) # 0 /\ index = 0
         THEN [member |-> "left", value |-> v.left]
         ELSE IF p.right_member /\ get_raw_pointer(v.right) # 0 /\ index = 1
         THEN [member |-> "right", value |-> v.right]
         ELSE [member |-> "", value |-> None]
GetChildAtIndex(p, v, index) ==
    IF p.is_nary THEN
        IF p.children_member /\ index + 1 \in DOMAIN v.children
        THEN [member |-> "children", value |-> v.children[index + 1]]
        ELSE [member |-> "", value |-> None]
    ELSE LET has_left == p.left_member /\ get_raw_pointer(v.left) # 0
             current_index == IF has_left THEN 1 ELSE 0
         IN  IF has_left /\ index = 0
             THEN [member |-> "left", value |-> v.left]
             ELSE IF p.right_member /\ get_raw_pointer(v.right) # 0
                     /\ index = current_index
             THEN [member |-> "right", value |-> v.right]
             ELSE [member |-> "", value |-> None]

\* LLDB calls update().
Update ==
    /\ kind = "treenode"
    /\ provider' = ProviderUpdate(valobj)
    /\ fresh' = TRUE
    /\ answer' = [NoAnswer EXCEPT !.call = "update"]
    /\ UNCHANGED <<valobj, lldbVars, flatVars, toolVars>>

\* LLDB calls num_children().
NumChildren ==
    /\ kind = "treenode"
    /\ answer' = [NoAnswer EXCEPT !.call = "num_children",
                                  !.value = provider.num_children_val]
    /\ UNCHANGED <<valobj, provider, fresh, lldbVars, flatVars, toolVars>>

\* LLDB calls get_child_at_index(index).
AskChildAtIndex ==
    /\ kind = "treenode"
    /\ \E index \in -1..MaxIndex :
        LET child == GetChildAtIndex(provider, valobj, index) IN
        answer' = [call |-> "get_child_at_index", index |-> index,
                   member |-> child.member, value |-> child.value]
    /\ UNCHANGED <<valobj, provider, fresh, lldbVars, flatVars, toolVars>>

\* The debuggee runs and stores to one member of the node; the provider's
\* cached fields are those of the last update().
DebuggeeStores ==
    /\ kind = "treenode"
    /\ \E v \in TreeNodes :
        /\ v # valobj
        /\ v.has_children = valobj.has_children
        /\ \/ (v.left = valobj.left /\ v.children = valobj.children)
           \/ (v.right = valobj.right /\ v.children = valobj.children)
        /\ (v.left = None) = (valobj.left = None)
        /\ (v.right = None) = (valobj.right = None)
        /\ valobj' = v
    /\ fresh' = FALSE
    /\ answer' = NoAnswer
    /\ UNCHANGED <<provider, lldbVars, flatVars, toolVars>>

\* __init__ ends with update().
InitProvider ==
    /\ kind = "treenode" /\ NoList /\ NoTree /\ NoGraphNode /\ valid = {}
    /\ modules = ImportedModules /\ configured = <<>>
    /\ IdleCall /\ NoFlatten /\ NoTools
    /\ valobj \in TreeNodes
    /\ provider = ProviderUpdate(valobj)
    /\ fresh = TRUE
    /\ answer = NoAnswer

NextProvider == Update \/ NumChildren \/ AskChildAtIndex \/ DebuggeeStores

SpecProvider == InitProvider /\ [][NextProvider]_vars

(***************************************************************************)
(* graph.py: GraphNodeSummary                                              *)
(* neighbors[i] says whether neighbour i can be dereferenced; a neighbour  *)
(* shown in the summary is represented by its index.                       *)
(***************************************************************************)
GraphNodeInputs(maxlen) ==
    \E len \in 0..maxlen, bad \in 0..maxlen :
        neighbors = [i \in 1..len |-> i # bad]

GraphNodeSummary ==
    /\ kind = "graphnode" /\ pc = "idle"
    /\ op' = "graphnode" /\ pc' = "done" /\ steps' = 1
    /\ LET max_neighbors == modules["graph"].graph_max_neighbors
           num_neighbors == Len(neighbors)
           \* range(min(neighbors.GetNumChildren(), max_neighbors))
           shown == IF num_neighbors < max_neighbors
                    THEN num_neighbors ELSE max_neighbors
           indices == [i \in 1..shown |-> i]
       IN  /\ max_items' = max_neighbors
           /\ ret' = [text |-> "node",
                      items |-> SelectSeq(indices, LAMBDA i : neighbors[i]),
                      truncated |-> num_neighbors > max_neighbors]
    /\ UNCHANGED <<memVars, modules, node, count, visited, summary, stack,
                   nodes_list, configured>>
    /\ UNCHANGED <<provVars, flatVars, toolVars>>

(***************************************************************************)
(* config.py: formatter_config                                             *)
(* An argument is a string of characters; int() accepts an optional sign   *)
(* followed by decimal digits.                                             *)
(***************************************************************************)
Chars == {"2", "-", "x"}
Digit == [c \in {"2"} |-> 2]
Tokens == UNION {[1..n -> Chars] : n \in 1..MaxTokenLen}

RECURSIVE DecimalValue(_)
DecimalValue(digits) ==
    IF digits = <<>> THEN 0
    ELSE 10 * DecimalValue(SubSeq(digits, 1, Len(digits) - 1))
         + Digit[digits[Len(digits)]]

\* int(value_str): [ok |-> FALSE] stands for ValueError.
ParseInt(value_str) ==
    LET signed == value_str[1] = "-"
        digits == IF signed THEN Tail(value_str) ELSE value_str
    IN  IF digits # <<>> /\ \A i \in DOMAIN digits : digits[i] \in DOMAIN Digit
        THEN [ok |-> TRUE,
              value |-> IF signed THEN 0 - DecimalValue(digits)
                        ELSE DecimalValue(digits)]
        ELSE [ok |-> FALSE, value |-> 0]

Keys == {"summary_max_items", "graph_max_neighbors", "verbose"}

\* command.split(): the number of arguments and, of two, the key and the value.
CommandLines ==
    {[n |-> n, key |-> "", value_str |-> <<"x">>] : n \in {0, 1, 3}}
    \cup [n : {2}, key : Keys, value_str : Tokens]

\* The settings a successful 'formatter_config <key> <value>' has set, by key.
Configure(key, value) ==
    [k \in DOMAIN configured \cup {key} |->
        IF k = key THEN value ELSE configured[k]]

\* The assignment 'g_<key> = value' under 'global g_<key>' in config.py: it
\* rebinds the name in the namespace of the module config.
SetGlobal(key, value) == [modules EXCEPT !["config"][key] = value]

formatter_config_command ==
    /\ pc = "idle"
    /\ op' = "config"
    /\ \E cmd \in CommandLines :
        IF cmd.n = 0 THEN
            /\ ret' = [text |-> "Current Formatter Settings:",
                       items |-> <<modules["config"].summary_max_items,
                                   modules["config"].graph_max_neighbors>>,
                       truncated |-> FALSE]
            /\ UNCHANGED <<modules, configured>>
        ELSE IF cmd.n # 2 THEN
            /\ ret' = [NoRet EXCEPT !.text = "error: Usage"]
            /\ UNCHANGED <<modules, configured>>
        ELSE LET parsed == ParseInt(cmd.value_str) IN
            IF ~parsed.ok THEN
                /\ ret' = [NoRet EXCEPT !.text = "error: Invalid value"]
                /\ UNCHANGED <<modules, configured>>
            ELSE IF cmd.key \in {"summary_max_items", "graph_max_neighbors"} THEN
                /\ modules' = SetGlobal(cmd.key, parsed.value)
                /\ configured' = Configure(cmd.key, parsed.value)
                /\ ret' = [NoRet EXCEPT !.text = "Set", !.items = <<parsed.value>>]
            ELSE
                /\ ret' = [NoRet EXCEPT !.text = "error: Unknown setting"]
                /\ UNCHANGED <<modules, configured>>
    /\ UNCHANGED <<memVars, pc, node, count, visited, summary, max_items,
                   stack, nodes_list, steps>>
    /\ UNCHANGED <<provVars, flatVars, toolVars>>

\* The summary is displayed; LLDB waits for the next command or stop.
BackToPrompt ==
    /\ pc = "done"
    /\ pc' = "idle" /\ op' = "none"
    /\ node' = 0 /\ count' = 0 /\ visited' = {} /\ summary' = <<>>
    /\ max_items' = 0 /\ stack' = <<>> /\ nodes_list' = <<>>
    /\ ret' = NoRet /\ steps' = 0
    /\ UNCHANGED <<memVars, modules, configured>>
    /\ UNCHANGED <<provVars, flatVars, toolVars>>

\* A formatter_config session: the variable displayed is a list, a tree or a
\* graph node.
InitConfig ==
    /\ \/ (kind = "list" /\ ListInputs(MaxCfgLen) /\ NoTree /\ NoGraphNode)
       \/ (kind = "tree" /\ SmallGraphs(MaxCfgNodes) /\ NoList /\ NoGraphNode)
       \/ (kind = "graphnode" /\ GraphNodeInputs(MaxCfgLen) /\ NoList /\ NoTree
            /\ valid = {})
    /\ modules = ImportedModules /\ configured = <<>>
    /\ IdleCall /\ NoProvider /\ NoFlatten /\ NoTools

NextConfig ==
    \/ formatter_config_command
    \/ GetSummaryBegin \/ GetSummaryLoop
    \/ TreeSummaryBegin \/ TreeSummaryStep
    \/ GraphNodeSummary
    \/ BackToPrompt

SpecConfig == InitConfig /\ [][NextConfig]_vars

(***************************************************************************)
(* flatten_dots.py                                                         *)
(* The filesystem is two trees, the source and the destination directory.  *)
(* A node is a file with its data, a directory with its entries by name,   *)
(* or absent.  Symbolic links and I/O errors are not modelled.             *)
(***************************************************************************)
Absent == [type |-> "absent"]
File(data) == [type |-> "file", data |-> data]
Dir(entries) == [type |-> "dir", entries |-> entries]
IsDir(n) == n.type = "dir"

EntryNames == {".config", "alacritty"}
Packages == {"alacritty", "zsh"}
\* name.startswith('.') over the names of the model
Hidden(name) == name \in {".config", ".git"}

\* The trees of depth at most d, and the directories among them.
RECURSIVE Trees(_)
Trees(d) ==
    IF d = 0 THEN {File("new"), Dir(<<>>)}
    ELSE {File("new")}
         \cup {Dir(e) : e \in UNION {[S -> Trees(d - 1)] : S \in SUBSET EntryNames}}
Dirs(d) == {t \in Trees(d) : IsDir(t)}

\* The directory at a path below directory n.
RECURSIVE NodeAt(_, _)
NodeAt(n, path) ==
    IF path = <<>> THEN n ELSE NodeAt(n.entries[Head(path)], Tail(path))

\* find_payload_root: the path of the result below package_dir.
RECURSIVE find_payload_root(_, _)
find_payload_root(current_path, current) ==
    LET children == {name \in DOMAIN current.entries : ~Hidden(name)} IN
    IF Cardinality(children) = 1
       /\ IsDir(current.entries[CHOOSE name \in children : TRUE])
    THEN LET child == CHOOSE name \in children : TRUE
         IN  find_payload_root(Append(current_path, child), current.entries[child])
    ELSE current_path

\* The entries of directory d with entry name set to node n / removed.
WithEntry(d, name, n) ==
    Dir([k \in DOMAIN d.entries \cup {name} |->
            IF k = name THEN n ELSE d.entries[k]])
WithoutEntry(d, name) ==
    Dir([k \in DOMAIN d.entries \ {name} |-> d.entries[k]])

\* final_dest_path.exists()
Exists(dst, program_name) == IsDir(dst) /\ program_name \in DOMAIN dst.entries

Reported(program_name, what) ==
    [k \in DOMAIN report \cup {program_name} |->
        IF k = program_name THEN what ELSE report[k]]

\* main() up to the loop: the source check, the creation of the destination
\* directory, the list of Stow packages.
FlattenStart ==
    /\ fpc = "start"
    /\ IF ~IsDir(fs.src) THEN
            fpc' = "exit1" /\ UNCHANGED <<fs, todo>>
       ELSE IF ~args.dry_run /\ fs.dst.type = "file" THEN
            \* dest_dir.mkdir(parents=True, exist_ok=True): FileExistsError
            fpc' = "crashed" /\ UNCHANGED <<fs, todo>>
       ELSE
            /\ fs' = IF ~args.dry_run /\ fs.dst.type = "absent"
                     THEN [fs EXCEPT !.dst = Dir(<<>>)] ELSE fs
            /\ todo' = {name \in DOMAIN fs.src.entries :
                            IsDir(fs.src.entries[name]) /\ ~Hidden(name)}
            /\ fpc' = "loop"
    /\ UNCHANGED <<fs0, args, report>>
    /\ UNCHANGED exceptFlat

\* One iteration of 'for package_dir in stow_packages': what it does to the
\* destination and what it prints.  shutil.rmtree of a file raises
\* NotADirectoryError, which nothing catches.
MutForceInDryRun(dst, package_dir, program_name) ==
    LET payload_root == find_payload_root(<<>>, package_dir)
        payload_items == NodeAt(package_dir, payload_root).entries
        exists == Exists(dst, program_name)
        removed == IF exists /\ args.force
                   THEN WithoutEntry(dst, program_name) ELSE dst
    IN  IF exists /\ ~args.force
        THEN [dst |-> dst, printed |-> "FAIL: already exists", crashed |-> FALSE]
        ELSE IF exists /\ ~IsDir(dst.entries[program_name])
        THEN [dst |-> dst, printed |-> "FORCE", crashed |-> TRUE]
        ELSE IF DOMAIN payload_items = {}
        THEN [dst |-> removed, printed |-> "WARN: No files found",
              crashed |-> FALSE]
        ELSE IF args.dry_run
        THEN [dst |-> removed, printed |-> "Copying to", crashed |-> FALSE]
        ELSE [dst |-> WithEntry(removed, program_name, Dir(payload_items)),
              printed |-> "Copying to", crashed |-> FALSE]
MutIgnoreExisting(dst, package_dir, program_name) ==
    LET payload_root == find_payload_root(<<>>, package_dir)
        payload_items == NodeAt(package_dir, payload_root).entries
    IN  IF DOMAIN payload_items = {}
        THEN [dst |-> dst, printed |-> "WARN: No files found", crashed |-> FALSE]
        ELSE IF args.dry_run
        THEN [dst |-> dst, printed |-> "Copying to", crashed |-> FALSE]
        ELSE [dst |-> WithEntry(dst, program_name, Dir(payload_items)),
              printed |-> "Copying to", crashed |-> FALSE]
LoopBody(dst, package_dir, program_name) ==
    LET payload_root == find_payload_root(<<>>, package_dir)
        payload_items == NodeAt(package_dir, payload_root).entries
        exists == Exists(dst, program_name)
        removed == IF exists /\ args.force /\ ~args.dry_run
                   THEN WithoutEntry(dst, program_name) ELSE dst
    IN  IF exists /\ ~args.force
        THEN [dst |-> dst, printed |-> "FAIL: already exists", crashed |-> FALSE]
        ELSE IF exists /\ ~args.dry_run /\ ~IsDir(dst.entries[program_name])
        THEN [dst |-> dst, printed |-> "FORCE", crashed |-> TRUE]
        ELSE IF DOMAIN payload_items = {}
        THEN [dst |-> removed, printed |-> "WARN: No files found",
              crashed |-> FALSE]
        ELSE IF args.dry_run
        THEN [dst |-> removed, printed |-> "Copying to", crashed |-> FALSE]
        ELSE [dst |-> WithEntry(removed, program_name, Dir(payload_items)),
              printed |-> "Copying to", crashed |-> FALSE]

\* The loop takes the next package (iterdir gives them in any order).
ProcessPackage ==
    /\ fpc = "loop"
    /\ \E program_name \in todo :
        LET r == LoopBody(fs.dst, fs.src.entries[program_name], program_name) IN
        /\ fs' = [fs EXCEPT !.dst = r.dst]
        /\ report' = Reported(program_name, r.printed)
        /\ todo' = todo \ {program_name}
        /\ fpc' = IF r.crashed THEN "crashed" ELSE "loop"
    /\ UNCHANGED <<fs0, args>>
    /\ UNCHANGED exceptFlat

\* The loop is over: 'Operation completed!'
FlattenFinish ==
    /\ fpc = "loop" /\ todo = {}
    /\ fpc' = "done"
    /\ UNCHANGED <<fs, fs0, args, todo, report>>
    /\ UNCHANGED exceptFlat

NoLldb ==
    /\ kind = "none" /\ NoList /\ NoTree /\ NoGraphNode /\ valid = {}
    /\ modules = ImportedModules /\ configured = <<>>
    /\ IdleCall /\ NoProvider

\* What an existing destination holds for a package: a file or a folder with
\* old content.
OldEntries == {File("old"), Dir([n \in {"alacritty"} |-> File("old")])}

InitFlatten ==
    /\ NoLldb /\ NoTools
    /\ fs \in [src : {Absent} \cup
                     {Dir(e) : e \in UNION {
                        [S -> {File("new")} \cup Dirs(MaxDepth - 1)] :
                            S \in SUBSET (Packages \cup {".git"})}},
               dst : {Absent, File("old")} \cup
                     {Dir(e) : e \in UNION {[S -> OldEntries] :
                                                S \in SUBSET Packages}}]
    /\ fs0 = fs
    /\ args \in [force : BOOLEAN, dry_run : BOOLEAN]
    /\ fpc = "start" /\ todo = {} /\ report = <<>>

NextFlatten == FlattenStart \/ ProcessPackage \/ FlattenFinish

SpecFlatten == InitFlatten /\ [][NextFlatten]_vars

\* find_payload_root applied to one package directory of any shape.
ApplyFindPayloadRoot ==
    /\ fpc = "start"
    /\ report' = [payload_root |-> find_payload_root(<<>>, fs.src)]
    /\ fpc' = "done"
    /\ UNCHANGED <<fs, fs0, args, todo>>
    /\ UNCHANGED exceptFlat

InitPayload ==
    /\ NoLldb /\ NoTools
    /\ fs \in [src : Dirs(MaxDepth + 1), dst : {Absent}]
    /\ fs0 = fs
    /\ args = [force |-> FALSE, dry_run |-> FALSE]
    /\ fpc = "start" /\ todo = {} /\ report = <<>>

SpecPayload == InitPayload /\ [][ApplyFindPayloadRoot]_vars

(***************************************************************************)
(* utils/create_stow_dirs.py                                               *)
(* The source directory (~/.config) and the target directory of the Stow   *)
(* packages are the two trees of fs.  A target entry is a directory, a     *)
(* file or a symbolic link.  The answer to the overwrite prompt is a       *)
(* string of characters.                                                   *)
(***************************************************************************)
EXCLUDE_DIRS ==
    {".android", ".vscode", "crossnote", "emacs", "fzf-git", "gh",
     "github-copilot", "gtk-2.0", "jgit", "Microsoft", "raycast", "thefuck",
     "wireshark", "xbuild", "zsh"}

Symlink == [type |-> "symlink"]

\* The entries of the source directory, as sorted() orders them.
SortedNames == <<"kitty", "nvim", "zsh">>
FirstOf(names) ==
    SortedNames[CHOOSE i \in DOMAIN SortedNames :
        /\ SortedNames[i] \in names
        /\ \A j \in 1..(i - 1) : SortedNames[j] \notin names]

\* str.lower() over the characters an answer is made of.
AnswerChars == {"y", "Y", "e", "s", "i", "n"}
LowerChar(ch) == IF ch = "Y" THEN "y" ELSE ch
Lower(text) == [k \in DOMAIN text |-> LowerChar(text[k])]

\* What input() gives: a line, Ctrl-C (KeyboardInterrupt) or end of input
\* (EOFError).
Inputs ==
    {[kind |-> "line", text |-> t] :
        t \in UNION {[1..n -> AnswerChars] : n \in 0..MaxAnswerLen}}
    \cup {[kind |-> "interrupt", text |-> <<>>], [kind |-> "eof", text |-> <<>>]}

\* response.lower() in ['y', 'yes', 's', 'si']
MutOverwriteConfirmed(response) ==
    Lower(response) \in {<<>>, <<"y">>, <<"y", "e", "s">>, <<"s">>, <<"s", "i">>}
OverwriteConfirmed(response) ==
    Lower(response) \in {<<"y">>, <<"y", "e", "s">>, <<"s">>, <<"s", "i">>}

\* The Stow package made of config_source: <package>/.config/<package>/...
StowPackage(package_name, config_source) ==
    Dir([a \in {".config"} |-> Dir([b \in {package_name} |-> config_source])])

\* One iteration of 'for config_source in sorted(source_dir.iterdir())' on
\* the target directory, reading 'input' if it prompts.
MutStowPromptInDryRun(target, config_source, package_name, input) ==
    LET exists == IsDir(target) /\ package_name \in DOMAIN target.entries
        removed == IF exists THEN WithoutEntry(target, package_name) ELSE target
        base == IF IsDir(removed) THEN removed ELSE Dir(<<>>)
        quiet(printed) == [target |-> target, printed |-> printed,
                           read |-> NoInput, exit |-> "no"]
    IN  IF ~IsDir(config_source) THEN quiet("")
        ELSE IF package_name \in EXCLUDE_DIRS THEN quiet("Skipped (excluded)")
        ELSE IF exists /\ input.kind = "interrupt"
        THEN [target |-> target, printed |-> "Operation interrupted by user",
              read |-> input, exit |-> "exit1"]
        ELSE IF exists /\ input.kind = "eof"
        THEN [target |-> target, printed |-> "", read |-> input,
              exit |-> "crashed"]
        ELSE IF exists /\ ~OverwriteConfirmed(input.text)
        THEN [target |-> target, printed |-> "Skipped by user",
              read |-> input, exit |-> "no"]
        ELSE IF args.dry_run
        THEN [target |-> removed, printed |-> "Creating structure in",
              read |-> IF exists THEN input ELSE NoInput, exit |-> "no"]
        ELSE [target |-> WithEntry(base, package_name,
                                   StowPackage(package_name, config_source)),
              printed |-> "Created Stow package",
              read |-> IF exists THEN input ELSE NoInput, exit |-> "no"]
StowLoopBody(target, config_source, package_name, input) ==
    LET exists == IsDir(target) /\ package_name \in DOMAIN target.entries
        removed == IF exists THEN WithoutEntry(target, package_name) ELSE target
        base == IF IsDir(removed) THEN removed ELSE Dir(<<>>)
        quiet(printed) == [target |-> target, printed |-> printed,
                           read |-> NoInput, exit |-> "no"]
    IN  IF ~IsDir(config_source) THEN quiet("")
        ELSE IF package_name \in EXCLUDE_DIRS THEN quiet("Skipped (excluded)")
        ELSE IF exists /\ args.dry_run
        THEN quiet("DRY-RUN: Would ask for overwrite confirmation")
        ELSE IF exists /\ input.kind = "interrupt"
        THEN [target |-> target, printed |-> "Operation interrupted by user",
              read |-> input, exit |-> "exit1"]
        ELSE IF exists /\ input.kind = "eof"
        THEN [target |-> target, printed |-> "", read |-> input,
              exit |-> "crashed"]
        ELSE IF exists /\ ~OverwriteConfirmed(input.text)
        THEN [target |-> target, printed |-> "Skipped by user",
              read |-> input, exit |-> "no"]
        ELSE IF args.dry_run THEN quiet("Creating structure in")
        ELSE [target |-> WithEntry(base, package_name,
                                   StowPackage(package_name, config_source)),
              printed |-> "Created Stow package",
              read |-> IF exists THEN input ELSE NoInput, exit |-> "no"]

\* The iteration reaches the conflict handling, where input() is called.
Conflict(target, config_source, package_name) ==
    /\ IsDir(config_source) /\ package_name \notin EXCLUDE_DIRS
    /\ IsDir(target) /\ package_name \in DOMAIN target.entries

\* main() up to the loop: the source check and the listing of the source.
StowStart ==
    /\ fpc = "start"
    /\ IF ~IsDir(fs.src)
       THEN fpc' = "exit1" /\ todo' = todo
       ELSE fpc' = "loop" /\ todo' = DOMAIN fs.src.entries
    /\ UNCHANGED <<fs, fs0, args, report, stdin>>
    /\ UNCHANGED exceptStow

\* The loop takes the next entry of the source in sorted order.
StowIteration ==
    /\ fpc = "loop" /\ todo # {}
    /\ LET package_name == FirstOf(todo) IN
       \E input \in IF Conflict(fs.dst, fs.src.entries[package_name], package_name)
                     THEN Inputs ELSE {NoInput} :
        LET r == StowLoopBody(fs.dst, fs.src.entries[package_name],
                              package_name, input) IN
        /\ fs' = [fs EXCEPT !.dst = r.target]
        /\ report' = Reported(package_name, r.printed)
        /\ stdin' = r.read
        /\ todo' = todo \ {package_name}
        /\ fpc' = IF r.exit = "no" THEN "loop" ELSE r.exit
    /\ UNCHANGED <<fs0, args>>
    /\ UNCHANGED exceptStow

\* The loop is over: 'Operation completed.'
StowFinish ==
    /\ fpc = "loop" /\ todo = {}
    /\ fpc' = "done"
    /\ UNCHANGED <<fs, fs0, args, todo, report, stdin>>
    /\ UNCHANGED exceptStow

\* What the source holds for a name, and what the target held before.
ConfigSources == {File("new"), Dir([n \in {"conf"} |-> File("new")])}
OldTargets == {File("old"), Symlink, Dir([n \in {".config"} |-> Dir(<<>>)])}

\* The directories over the names: an excluded name, when present, is a
\* directory.
StowDirs(nodes) ==
    {Dir(e) : e \in {x \in UNION {[S -> nodes] : S \in SUBSET Range(SortedNames)} :
                        \A n \in DOMAIN x : n \in EXCLUDE_DIRS => IsDir(x[n])}}

InitStow ==
    /\ NoLldb
    /\ fs \in [src : {Absent} \cup StowDirs(ConfigSources),
               dst : {Absent} \cup StowDirs(OldTargets)]
    /\ fs0 = fs
    /\ args \in [dry_run : BOOLEAN]
    /\ fpc = "start" /\ todo = {} /\ report = <<>>
    /\ stdin = NoInput /\ NoTitles /\ NoFnm /\ NoBackup /\ NoClick

NextStow == StowStart \/ StowIteration \/ StowFinish

SpecStow == InitStow /\ [][NextStow]_vars

(***************************************************************************)
(* zsh/scripts/python/fix_all_titles.py                                    *)
(* A message text and a generated title are sequences of characters.       *)
(***************************************************************************)
\* str.strip(): the text without its leading and trailing whitespace.
RECURSIVE LStrip(_)
LStrip(text) ==
    IF text # <<>> /\ Head(text) = " " THEN LStrip(Tail(text)) ELSE text
RECURSIVE RStrip(_)
RStrip(text) ==
    IF text # <<>> /\ text[Len(text)] = " "
    THEN RStrip(SubSeq(text, 1, Len(text) - 1)) ELSE text
Strip(text) == RStrip(LStrip(text))

\* text.startswith(prefix), text[:n], text[n:]
StartsWith(text, prefix) ==
    Len(text) >= Len(prefix) /\ SubSeq(text, 1, Len(prefix)) = prefix
Take(text, n) == SubSeq(text, 1, IF n < Len(text) THEN n ELSE Len(text))
Drop(text, n) == SubSeq(text, n + 1, Len(text))

\* text.split('.')[0]: the text up to its first full stop.
RECURSIVE FirstSentence(_)
FirstSentence(text) ==
    IF text = <<>> \/ Head(text) = "." THEN <<>>
    ELSE <<Head(text)>> \o FirstSentence(Tail(text))

TitlePrefixes ==
    <<<<"C", "l", "a", "u", "d", "e", "!", " ">>,
      <<"C", "l", "a", "u", "d", "e", ",", " ">>,
      <<"E", "h", "i", " ", "C", "l", "a", "u", "d", "e", "!", " ">>,
      <<"C", "i", "a", "o", " ", "C", "l", "a", "u", "d", "e", "!", " ">>,
      <<"H", "e", "y", " ", "C", "l", "a", "u", "d", "e", "!", " ">>>>

\* for prefix in [...]: if text.startswith(prefix): text = text[len(prefix):]
RECURSIVE RemovePrefixes(_, _)
RemovePrefixes(text, prefixes) ==
    IF prefixes = <<>> THEN text
    ELSE RemovePrefixes(IF StartsWith(text, Head(prefixes))
                        THEN Drop(text, Len(Head(prefixes))) ELSE text,
                        Tail(prefixes))

\* generate_title: 'sentences' is never empty, so the first return is taken.
generate_title(message_text) ==
    LET text == RemovePrefixes(Strip(message_text), TitlePrefixes)
        title == Strip(FirstSentence(text))
    IN  IF Len(title) > TitleCut
        THEN Strip(Take(title, TitleCut)) \o <<".", ".", ".">>
        ELSE title

\* Message texts: optional leading blank and greeting, n letters with a
\* blank or a full stop put in place of the k-th, and a second sentence.
MessageTexts ==
    {lead \o greeting \o [k \in 1..n |-> IF k = at THEN mark ELSE "a"] \o tail :
        lead \in {<<>>, <<" ">>},
        greeting \in {<<>>, TitlePrefixes[1], TitlePrefixes[3]},
        n \in {0, 1, 2} \cup ((TitleCut - 2)..MaxTextLen),
        at \in {0, 1, TitleCut, TitleCut + 1},
        mark \in {" ", "."},
        tail \in {<<>>, <<".", " ", "b">>}}

\* generate_title applied to one message text.
ApplyGenerateTitle ==
    /\ tpc = "start"
    /\ new_title' = generate_title(first_msg)
    /\ tpc' = "done"
    /\ UNCHANGED <<history, history0, conv, updates, first_msg>>
    /\ UNCHANGED exceptTitles

InitTitle ==
    /\ NoLldb /\ NoFlatten /\ NoStow /\ NoFnm /\ NoBackup /\ NoClick
    /\ history = <<>> /\ history0 = <<>> /\ conv = <<>> /\ updates = <<>>
    /\ first_msg \in MessageTexts
    /\ new_title = <<>>
    /\ tpc = "start"

SpecTitle == InitTitle /\ [][ApplyGenerateTitle]_vars

(***************************************************************************)
(* fix_all_titles.py: the history file and the conversation files.         *)
(* A line of history.jsonl is a JSON object with the fields sessionId,     *)
(* display and project, written compactly or with other spacing, or a line *)
(* that is not JSON.  A display is a sequence of words, a corrupted-title  *)
(* phrase counting as one word.  "" is a missing or empty field.           *)
(***************************************************************************)
CORRUPTED_TITLES ==
    {"OAuth token revoked", "Credit balance is too low", "Please run/login",
     "Login and exit commands", "Empty conversation"}

\* is_corrupted_title: some phrase of CORRUPTED_TITLES occurs in the title.
is_corrupted_title(display) ==
    \E k \in DOMAIN display : display[k] \in CORRUPTED_TITLES

NoFile == [exists |-> FALSE, lines |-> <<>>]
ConvFile(lines) == [exists |-> TRUE, lines |-> lines]
\* 'not first_msg': None or the empty text
NoMessage == <<>>
Sessions == {"s1", "s2"}

\* The texts of conversation messages.
IdeText == <<"<", "i", "d", "e", "_", "o", "p", "e", "n", "e", "d", "_", "f", "i", "l", "e", ">">>
MarkupText == <<"<", "b", ">", "F", "i", "x", " ", "t", "h", "e", " ", "p", "a", "r", "s", "e", "r", "<", "/", "b", ">">>
ShortText == <<" ", "h", "i", " ", "t", "h", "e", "r", "e", " ">>
RealText == <<"C", "l", "a", "u", "d", "e", "!", " ", "F", "i", "x", " ", "t", "h", "e", " ", "p", "a", "r", "s", "e", "r", ".", " ", "N", "o", "w">>
MinMessageLen == 10
MaxMessageLen == 300

\* extract_first_message: the first user text that is not an IDE or system
\* message and has more than 10 characters, cut at 300; None if there is none
\* or the file cannot be read.
Meaningful(line) ==
    /\ line.type = "user"
    /\ line.text # <<>>
    /\ IF line.content = "list"
       THEN /\ ~StartsWith(line.text, <<"<", "i", "d", "e", "_">>)
            /\ ~StartsWith(line.text, <<"<", "s", "y", "s", "t", "e", "m">>)
            /\ ~StartsWith(line.text, <<"C", "a", "v", "e", "a", "t", ":">>)
       ELSE ~StartsWith(line.text, <<"<">>)
    /\ Len(Strip(line.text)) > MinMessageLen
RECURSIVE extract_first_message(_)
extract_first_message(lines) ==
    IF lines = <<>> THEN NoMessage
    ELSE IF Meaningful(Head(lines))
         THEN Take(Strip(Head(lines).text), MaxMessageLen)
         ELSE extract_first_message(Tail(lines))

\* find_conversation_file: the session file under the project's directory.
find_conversation_file(session_id, project_path) ==
    IF project_path = "" THEN NoFile ELSE conv[session_id]

\* process_conversations, the reading loop from line k on: the dict 'updates'.
RECURSIVE ScanHistory(_, _, _)
ScanHistory(lines, k, upd) ==
    IF k > Len(lines) THEN upd
    ELSE LET line == lines[k]
             conv_file == find_conversation_file(line.sessionId, line.project)
             msg == extract_first_message(conv_file.lines)
         IN  IF \/ ~line.json
                \/ line.sessionId = ""
                \/ ~is_corrupted_title(line.display)
                \/ conv_file = NoFile
                \/ msg = NoMessage
             THEN ScanHistory(lines, k + 1, upd)
             ELSE ScanHistory(lines, k + 1,
                    [s \in DOMAIN upd \cup {line.sessionId} |->
                        IF s = line.sessionId THEN generate_title(msg)
                        ELSE upd[s]])

\* update_history_file: json.dumps(json.loads(line)) of every JSON line, with
\* the display replaced when the sessionId is in 'updates'.
RewriteLine(line, upd) ==
    IF ~line.json THEN line
    ELSE [line EXCEPT !.format = "compact",
                      !.display = IF line.sessionId \in DOMAIN upd
                                  THEN upd[line.sessionId] ELSE @]

\* process_conversations up to 'Apply updates'.
TitlesScan ==
    /\ tpc = "start"
    /\ updates' = ScanHistory(history, 1, <<>>)
    /\ tpc' = "scanned"
    /\ UNCHANGED <<history, history0, conv, first_msg, new_title>>
    /\ UNCHANGED exceptTitles

\* 'if not dry_run and updates: update_history_file(updates)'
TitlesApply ==
    /\ tpc = "scanned"
    /\ history' = IF ~args.dry_run /\ updates # <<>>
                  THEN [k \in DOMAIN history |-> RewriteLine(history[k], updates)]
                  ELSE history
    /\ tpc' = "done"
    /\ UNCHANGED <<history0, conv, updates, first_msg, new_title>>
    /\ UNCHANGED exceptTitles

HistoryLines ==
    [json : {TRUE}, format : {"compact", "spaced"}, sessionId : {"", "s1", "s2"},
     display : {<<"Fix", "parser">>, <<"OAuth token revoked">>,
                <<"API", "Error:", "Credit balance is too low">>},
     project : {"/p"}]
    \cup {[json |-> TRUE, format |-> "compact", sessionId |-> "s1",
           display |-> <<"Empty conversation">>, project |-> ""],
          [json |-> FALSE, format |-> "raw", sessionId |-> "",
           display |-> <<>>, project |-> ""]}

ConvLines ==
    [type : {"user"}, content : {"list", "str"},
     text : {IdeText, MarkupText, ShortText, RealText}]
    \cup {[type |-> "assistant", content |-> "list", text |-> RealText]}

InitHistory ==
    /\ kind = "none" /\ NoList /\ NoTree /\ NoGraphNode /\ valid = {}
    /\ modules = ImportedModules /\ configured = <<>>
    /\ IdleCall /\ NoProvider /\ NoStow /\ NoFnm /\ NoBackup /\ NoClick
    /\ fs = [src |-> Absent, dst |-> Absent] /\ fs0 = fs
    /\ args \in [dry_run : BOOLEAN]
    /\ fpc = "idle" /\ todo = {} /\ report = <<>>
    /\ history \in UNION {[1..n -> HistoryLines] : n \in 0..MaxHistory}
    /\ history0 = history
    /\ conv \in [Sessions -> {NoFile} \cup
                    {ConvFile(l) : l \in UNION {[1..n -> ConvLines] :
                                                    n \in 0..MaxConvLines}}]
    /\ conv["s2"] \in {NoFile, ConvFile(<<[type |-> "user", content |-> "list",
                                           text |-> RealText]>>)}
    /\ updates = <<>> /\ first_msg = <<>> /\ new_title = <<>>
    /\ tpc = "start"

NextHistory == TitlesScan \/ TitlesApply

SpecHistory == InitHistory /\ [][NextHistory]_vars

(***************************************************************************)
(* zsh/scripts/python/fnm_cleanup.py                                       *)
(* An entry of the multishells directory is a symbolic link, a file or a   *)
(* directory.  A link has the mtime of the link itself and, when its       *)
(* target exists, the atime of the target.  Times are seconds.             *)
(***************************************************************************)
\* stale_threshold_seconds = 24 * 60 * 60
stale_threshold_seconds == 86400
\* time.time() when the run starts
current_time == 1000000

\* How long ago a link or its target was last touched.
Ages == {0, stale_threshold_seconds - 1, stale_threshold_seconds,
         stale_threshold_seconds + 1, 2 * stale_threshold_seconds}

FnmEntries ==
    [is_symlink : {FALSE}, type : {"file", "dir"},
     st_mtime : {current_time}, exists : {TRUE}, st_atime : {current_time}]
    \cup [is_symlink : {TRUE}, type : {"link"},
          st_mtime : {current_time - a : a \in Ages},
          exists : {TRUE}, st_atime : {current_time - a : a \in Ages}]
    \cup [is_symlink : {TRUE}, type : {"link"},
          st_mtime : {current_time - a : a \in Ages},
          exists : {FALSE}, st_atime : {0}]

\* The body of 'for path_item in fnm_multishells_dir.iterdir()': TRUE iff
\* path_item.unlink() is called.
MutUnlinks(path_item) ==
    /\ path_item.is_symlink
    /\ \/ ~path_item.exists
       \/ current_time - path_item.st_mtime > stale_threshold_seconds
       \/ current_time - path_item.st_atime > stale_threshold_seconds
Unlinks(path_item) ==
    /\ path_item.is_symlink
    /\ \/ ~path_item.exists
       \/ LET link_age == current_time - path_item.st_mtime
              target_inactive == current_time - path_item.st_atime
          IN  /\ link_age > stale_threshold_seconds
              /\ target_inactive > stale_threshold_seconds

\* main() up to the loop.
CleanupStart ==
    /\ lpc = "start"
    /\ IF ~links.is_dir
       THEN lpc' = "done" /\ ltodo' = ltodo
       ELSE lpc' = "loop" /\ ltodo' = DOMAIN links.entries
    /\ UNCHANGED <<links, links0, unlinked>>
    /\ UNCHANGED exceptFnm

\* One iteration of the loop, on the entry iterdir() gives next.
CleanupItem ==
    /\ lpc = "loop"
    /\ \E name \in ltodo :
        /\ IF Unlinks(links.entries[name])
           THEN /\ links' = [links EXCEPT !.entries =
                        [k \in DOMAIN links.entries \ {name} |-> links.entries[k]]]
                /\ unlinked' = unlinked \cup {name}
           ELSE UNCHANGED <<links, unlinked>>
        /\ ltodo' = ltodo \ {name}
    /\ UNCHANGED <<links0, lpc>>
    /\ UNCHANGED exceptFnm

\* The loop is over.
CleanupFinish ==
    /\ lpc = "loop" /\ ltodo = {}
    /\ lpc' = "done"
    /\ UNCHANGED <<links, links0, ltodo, unlinked>>
    /\ UNCHANGED exceptFnm

InitFnm ==
    /\ NoLldb /\ NoFlatten /\ NoStow /\ NoTitles /\ NoBackup /\ NoClick
    /\ links \in {NoDirectory} \cup
                 {[is_dir |-> TRUE, entries |-> e] :
                    e \in UNION {[1..n -> FnmEntries] : n \in 0..MaxEntries}}
    /\ links0 = links
    /\ lpc = "start" /\ ltodo = {} /\ unlinked = {}

NextFnm == CleanupStart \/ CleanupItem \/ CleanupFinish

SpecFnm == InitFnm /\ [][NextFnm]_vars

(***************************************************************************)
(* zsh/scripts/python/images.py and update_frontmatter.py: process_file.   *)
(* The content of a markdown file is a sequence of parts: a frontmatter    *)
(* block (complete, incomplete or not valid YAML), plain text, an Obsidian *)
(* image link [[name]], or the markdown that replaces such a link.         *)
(***************************************************************************)
Part(k, v) == [kind |-> k, value |-> v]
ImageNames == {"a.png", "b.png"}

\* images.py: self.image_pattern.findall(content)
RECURSIVE FindImages(_)
FindImages(content) ==
    IF content = <<>> THEN <<>>
    ELSE (IF Head(content).kind = "obsidian"
          THEN <<Head(content).value>> ELSE <<>>) \o FindImages(Tail(content))

\* images.py: process_image_reference: the markdown replacement.
process_image_reference(image) ==
    IF access.image_found THEN Part("markdown", image)
    ELSE Part("missing", image)

\* images.py: the loop over 'images' with updated_content.replace(...).
ReplaceImages(content) ==
    [k \in DOMAIN content |->
        IF content[k].kind = "obsidian"
        THEN process_image_reference(content[k].value) ELSE content[k]]

\* update_frontmatter.py: the content process_file wants to write, or the
\* content itself when it changes nothing or gives up.
UpdateFrontmatter(content) ==
    IF content # <<>> /\ Head(content).kind = "frontmatter"
    THEN IF Head(content).value = "incomplete"
         THEN <<Part("frontmatter", "complete")>> \o Tail(content)
         ELSE content
    ELSE <<Part("frontmatter", "complete")>> \o content

\* process_file up to 'Create backup': the checks that return early.
ProcessFileBegin ==
    /\ bpc = "start"
    /\ bpc' = IF script = "images"
              THEN IF access.readable /\ FindImages(md_file) # <<>>
                   THEN "backup" ELSE "done"
              ELSE IF access.readable /\ ~access.unchanged_hash
                   THEN "backup" ELSE "done"
    /\ UNCHANGED <<script, md_file, md_file0, access, backups, backup_path>>
    /\ UNCHANGED exceptBackup

\* create_backup: shutil.copy2 succeeds or raises; the exception is logged
\* and None is returned.
CreateBackupResult(copied) ==
    /\ bpc = "backup"
    /\ IF (script = "images" \/ access.backup_dir) /\ copied
       THEN /\ backups' = backups \cup {md_file}
            /\ backup_path' = "backup"
       ELSE UNCHANGED <<backups, backup_path>>
    /\ bpc' = "update"
    /\ UNCHANGED <<script, md_file, md_file0, access>>
    /\ UNCHANGED exceptBackup
CreateBackup == \E copied \in BOOLEAN : CreateBackupResult(copied)

\* The rest of process_file: the new content and write_file_atomic, which
\* succeeds or fails.
UpdateFile ==
    /\ bpc = "update"
    /\ \E written \in BOOLEAN :
        LET updated_content == IF script = "images" THEN ReplaceImages(md_file)
                               ELSE UpdateFrontmatter(md_file)
        IN  md_file' = IF /\ updated_content # md_file
                          /\ (script = "images" => access.writable)
                          /\ written
                       THEN updated_content ELSE md_file
    /\ bpc' = "done"
    /\ UNCHANGED <<script, md_file0, access, backups, backup_path>>
    /\ UNCHANGED exceptBackup

MarkdownParts ==
    {Part("text", "")} \cup {Part("obsidian", n) : n \in ImageNames}
MarkdownContents ==
    {front \o body :
        front \in {<<>>} \cup {<<Part("frontmatter", v)>> :
                                v \in {"complete", "incomplete", "invalid"}},
        body \in UNION {[1..n -> MarkdownParts] : n \in 0..MaxParts}}

InitBackup ==
    /\ NoLldb /\ NoFlatten /\ NoStow /\ NoTitles /\ NoFnm /\ NoClick
    /\ script \in {"images", "frontmatter"}
    /\ md_file \in MarkdownContents
    /\ md_file0 = md_file
    /\ access \in [readable : BOOLEAN, writable : BOOLEAN, backup_dir : BOOLEAN,
                   unchanged_hash : BOOLEAN, image_found : BOOLEAN]
    /\ backups = {} /\ backup_path = ""
    /\ bpc = "start"

NextBackup == ProcessFileBegin \/ CreateBackup \/ UpdateFile

SpecBackup == InitBackup /\ [][NextBackup]_vars

(***************************************************************************)
(* tree.py: export_tree, and web_visualizer.py: export_tree_web.           *)
(* A line of the .dot content is a node definition, with the traversal     *)
(* index of its label (0 for the simple label), or an edge.                *)
(***************************************************************************)
DotNode(node_addr, order_index) ==
    [kind |-> "node", addr |-> node_addr, index |-> order_index, to |-> 0]
DotEdge(node_addr, child_addr) ==
    [kind |-> "edge", addr |-> node_addr, index |-> 0, to |-> child_addr]

\* traversal_map = {get_raw_pointer(node): i + 1 for i, node in
\* enumerate(nodes_in_order)}: a later entry of the same address wins.
MutTraversalMap(nodes_in_order) ==
    [a \in Range(nodes_in_order) |->
        (CHOOSE i \in DOMAIN nodes_in_order :
            /\ nodes_in_order[i] = a
            /\ \A j \in DOMAIN nodes_in_order : nodes_in_order[j] = a => j <= i) - 1]
TraversalMap(nodes_in_order) ==
    [a \in Range(nodes_in_order) |->
        CHOOSE i \in DOMAIN nodes_in_order :
            /\ nodes_in_order[i] = a
            /\ \A j \in DOMAIN nodes_in_order : nodes_in_order[j] = a => j <= i]

\* _build_dot_for_tree: one step of the top frame.  traversal_map is <<>>
\* when no order was asked for (None) or nothing was collected.
BuildDot(st, out, seen, traversal_map) ==
    LET f == Top(st)
        node_addr == get_raw_pointer(f.node_ptr)
    IN
    IF f.phase = "enter" THEN
        IF node_addr = 0 \/ node_addr \in seen
        THEN [stack |-> Return(st), out |-> out, seen |-> seen]
        ELSE IF safe_get_node_from_pointer(f.node_ptr) = None
        THEN [stack |-> Return(st), out |-> out, seen |-> seen \cup {node_addr}]
        ELSE [stack |-> Continue(st, [f EXCEPT !.phase = "loop",
                          !.children = get_node_children(f.node_ptr)]),
              out |-> Append(out,
                        IF traversal_map # <<>> /\ node_addr \in DOMAIN traversal_map
                        THEN DotNode(node_addr, traversal_map[node_addr])
                        ELSE DotNode(node_addr, 0)),
              seen |-> seen \cup {node_addr}]
    ELSE IF f.i <= Len(f.children)
    THEN LET child_ptr == f.children[f.i]
             child_addr == get_raw_pointer(child_ptr)
         IN  IF child_addr # 0
             THEN [stack |-> Recurse(st, [f EXCEPT !.i = f.i + 1], child_ptr),
                   out |-> Append(out, DotEdge(node_addr, child_addr)),
                   seen |-> seen]
             ELSE [stack |-> Continue(st, [f EXCEPT !.i = f.i + 1]),
                   out |-> out, seen |-> seen]
    ELSE [stack |-> Return(st), out |-> out, seen |-> seen]

\* _build_visjs_data: one step of the top frame; 'out' holds nodes_list
\* (the ids) and edges_list.
MutBuildVisjs(st, out, seen) ==
    LET f == Top(st)
        node_addr == get_raw_pointer(f.node_ptr)
    IN
    IF f.phase = "enter" THEN
        IF f.node_ptr = None \/ node_addr = 0 \/ node_addr \in seen
        THEN [stack |-> Return(st), out |-> out, seen |-> seen]
        ELSE IF safe_get_node_from_pointer(f.node_ptr) = None
        THEN [stack |-> Return(st), out |-> out, seen |-> seen \cup {node_addr}]
        ELSE [stack |-> Continue(st, [f EXCEPT !.phase = "loop",
                          !.children = get_node_children(f.node_ptr)]),
              out |-> out, seen |-> seen \cup {node_addr}]
    ELSE IF f.i <= Len(f.children)
    THEN LET child_ptr == f.children[f.i]
             child_addr == get_raw_pointer(child_ptr)
         IN  IF child_addr # 0
             THEN [stack |-> Recurse(st, [f EXCEPT !.i = f.i + 1], child_ptr),
                   out |-> [out EXCEPT !.edges_list =
                                Append(@, [from |-> node_addr, to |-> child_addr])],
                   seen |-> seen]
             ELSE [stack |-> Continue(st, [f EXCEPT !.i = f.i + 1]),
                   out |-> out, seen |-> seen]
    ELSE [stack |-> Return(st),
          out |-> [out EXCEPT !.nodes_list = Append(@, node_addr)],
          seen |-> seen]
BuildVisjs(st, out, seen) ==
    LET f == Top(st)
        node_addr == get_raw_pointer(f.node_ptr)
    IN
    IF f.phase = "enter" THEN
        IF f.node_ptr = None \/ node_addr = 0 \/ node_addr \in seen
        THEN [stack |-> Return(st), out |-> out, seen |-> seen]
        ELSE IF safe_get_node_from_pointer(f.node_ptr) = None
        THEN [stack |-> Return(st), out |-> out, seen |-> seen \cup {node_addr}]
        ELSE [stack |-> Continue(st, [f EXCEPT !.phase = "loop",
                          !.children = get_node_children(f.node_ptr)]),
              out |-> [out EXCEPT !.nodes_list = Append(@, node_addr)],
              seen |-> seen \cup {node_addr}]
    ELSE IF f.i <= Len(f.children)
    THEN LET child_ptr == f.children[f.i]
             child_addr == get_raw_pointer(child_ptr)
         IN  IF child_addr # 0
             THEN [stack |-> Recurse(st, [f EXCEPT !.i = f.i + 1], child_ptr),
                   out |-> [out EXCEPT !.edges_list =
                                Append(@, [from |-> node_addr, to |-> child_addr])],
                   seen |-> seen]
             ELSE [stack |-> Continue(st, [f EXCEPT !.i = f.i + 1]),
                   out |-> out, seen |-> seen]
    ELSE [stack |-> Return(st), out |-> out, seen |-> seen]

\* The command 'export_tree <var> <file> [order]' as the value of op.
ExportOrders == {"none", "preorder", "inorder", "postorder"}
ExportOp(traversal_order) ==
    CASE traversal_order = "preorder"  -> "export_tree preorder"
      [] traversal_order = "inorder"   -> "export_tree inorder"
      [] traversal_order = "postorder" -> "export_tree postorder"
      [] OTHER -> "export_tree"
ExportOps == {ExportOp(o) : o \in ExportOrders}

\* export_tree_command up to the first traversal.
ExportBegin ==
    /\ kind = "tree" /\ pc = "idle"
    /\ \E traversal_order \in ExportOrders :
        /\ op' = ExportOp(traversal_order)
        /\ IF root = None \/ get_raw_pointer(root) = 0
           THEN /\ ret' = [NoRet EXCEPT !.text = "Tree is empty"]
                /\ pc' = "done"
                /\ UNCHANGED <<stack, visited, nodes_list, summary>>
           ELSE /\ stack' = <<Call(root)>> /\ visited' = {}
                /\ nodes_list' = <<>> /\ summary' = <<>>
                /\ pc' = IF traversal_order = "none"
                         THEN "export_dot" ELSE "export_collect"
                /\ UNCHANGED ret
    /\ steps' = 1
    /\ UNCHANGED <<memVars, modules, node, count, max_items, configured>>
    /\ UNCHANGED <<provVars, flatVars, toolVars>>

\* The collector of the requested order fills nodes_in_order; after its
\* outermost return _build_dot_for_tree is called on the root.
ExportCollectStep ==
    /\ pc = "export_collect"
    /\ LET r == CASE op = "export_tree preorder" ->
                        CollectPreorder(stack, nodes_list, visited)
                  [] op = "export_tree inorder" ->
                        CollectInorder(stack, nodes_list, visited)
                  [] OTHER -> CollectPostorder(stack, nodes_list, visited)
       IN  /\ nodes_list' = r.out
           /\ IF r.stack = <<>>
              THEN stack' = <<Call(root)>> /\ visited' = {} /\ pc' = "export_dot"
              ELSE stack' = r.stack /\ visited' = r.seen /\ pc' = pc
    /\ steps' = steps + 1
    /\ UNCHANGED <<memVars, modules, op, node, count, summary, max_items, ret,
                   configured>>
    /\ UNCHANGED <<provVars, flatVars, toolVars>>

\* _build_dot_for_tree runs to its next call or return; after the outermost
\* return the lines are the content of the .dot file.
ExportDotStep ==
    /\ pc = "export_dot"
    /\ LET traversal_map == IF op = "export_tree" THEN <<>>
                            ELSE TraversalMap(nodes_list)
           r == BuildDot(stack, summary, visited, traversal_map)
       IN  /\ stack' = r.stack /\ summary' = r.out /\ visited' = r.seen
           /\ IF r.stack = <<>>
              THEN pc' = "done" /\ ret' = [NoRet EXCEPT !.text = "dot", !.items = r.out]
              ELSE UNCHANGED <<pc, ret>>
    /\ steps' = steps + 1
    /\ UNCHANGED <<memVars, modules, op, node, count, nodes_list, max_items,
                   configured>>
    /\ UNCHANGED <<provVars, flatVars, toolVars>>

\* export_tree_web_command up to the call of _build_visjs_data; the vis.js
\* library loads or not.
WebBegin ==
    /\ kind = "tree" /\ pc = "idle"
    /\ op' = "export_tree_web"
    /\ \E loaded \in BOOLEAN :
        IF root = None \/ get_raw_pointer(root) = 0
        THEN /\ ret' = [NoRet EXCEPT !.text = "Tree is empty"]
             /\ pc' = "done"
             /\ UNCHANGED <<stack, visited, nodes_list, summary>>
        ELSE IF ~loaded
        THEN /\ ret' = [NoRet EXCEPT !.text = "Could not load the vis.js library"]
             /\ pc' = "done"
             /\ UNCHANGED <<stack, visited, nodes_list, summary>>
        ELSE /\ stack' = <<Call(root)>> /\ visited' = {}
             /\ nodes_list' = <<>>
             /\ summary' = [nodes_list |-> <<>>, edges_list |-> <<>>]
             /\ pc' = "web_build"
             /\ UNCHANGED ret
    /\ steps' = 1
    /\ UNCHANGED <<memVars, modules, node, count, max_items, configured>>
    /\ UNCHANGED <<provVars, flatVars, toolVars>>

\* _build_visjs_data runs; after its outermost return _collect_nodes_preorder
\* is called on the root with a fresh list.
WebBuildStep ==
    /\ pc = "web_build"
    /\ LET r == BuildVisjs(stack, summary, visited) IN
        /\ summary' = r.out
        /\ IF r.stack = <<>>
           THEN stack' = <<Call(root)>> /\ visited' = {} /\ pc' = "web_collect"
           ELSE stack' = r.stack /\ visited' = r.seen /\ pc' = pc
    /\ steps' = steps + 1
    /\ UNCHANGED <<memVars, modules, op, node, count, nodes_list, max_items, ret,
                   configured>>
    /\ UNCHANGED <<provVars, flatVars, toolVars>>

\* _collect_nodes_preorder runs; after its outermost return
\* traversal_order_ids = [get_raw_pointer(node) for node in preorder_nodes].
WebCollectStep ==
    /\ pc = "web_collect"
    /\ LET r == CollectPreorder(stack, nodes_list, visited) IN
        /\ stack' = r.stack /\ nodes_list' = r.out /\ visited' = r.seen
        /\ IF r.stack = <<>>
           THEN /\ pc' = "done"
                /\ ret' = [NoRet EXCEPT !.text = "html",
                        !.items = [k \in DOMAIN r.out |-> get_raw_pointer(r.out[k])]]
           ELSE UNCHANGED <<pc, ret>>
    /\ steps' = steps + 1
    /\ UNCHANGED <<memVars, modules, op, node, count, summary, max_items,
                   configured>>
    /\ UNCHANGED <<provVars, flatVars, toolVars>>

InitExport ==
    /\ kind = "tree" /\ NoList /\ NoGraphNode
    /\ SmallGraphs(MaxNodes)
    /\ modules = ImportedModules /\ configured = <<>>
    /\ IdleCall /\ NoProvider /\ NoFlatten /\ NoTools

NextExport ==
    \/ ExportBegin \/ ExportCollectStep \/ ExportDotStep
    \/ WebBegin \/ WebBuildStep \/ WebCollectStep

SpecExport == InitExport /\ [][NextExport]_vars

(***************************************************************************)
(* click_handler.py.  'ran' lists the commands main starts, in order, and  *)
(* the moment the terminal process ends.                                   *)
(***************************************************************************)
Feedback == "sketchybar --set"
Query == "sketchybar --query"
Refresh == "pkill -USR1 -f 'brew_check'"
TerminalExited == "terminal exited"
NoCommand == ""

\* The main_command of the terminal main opens, if it opens one.
MainCommand(button, c) ==
    IF c > 0
    THEN IF button = "left" THEN "kitty: brew outdated"
         ELSE IF button = "right" THEN "kitty: brew upgrade"
         ELSE NoCommand
    ELSE IF button = "left" \/ button = "right" THEN "kitty: echo"
         ELSE NoCommand
TerminalCommands ==
    {"kitty: brew outdated", "kitty: brew upgrade", "kitty: echo"}

\* proc.wait() returns.
MutWaitReturns == proc # "none"
WaitReturns == proc = "terminated"

\* main up to proc.wait(): the status bar answers the query with a count, and
\* Popen starts the terminal or raises.
ClickMain ==
    /\ cpc = "start"
    /\ IF Len(argv) < 3
       THEN cpc' = "exit 1" /\ UNCHANGED <<outdated, proc, ran>>
       ELSE LET button == argv[2] IN
            IF button = "middle"
            THEN /\ ran' = <<Feedback, Refresh>>
                 /\ cpc' = "exit 0"
                 /\ UNCHANGED <<outdated, proc>>
            ELSE \E c \in 0..MaxCount, launched \in BOOLEAN :
                    /\ outdated' = c
                    /\ IF MainCommand(button, c) = NoCommand
                       THEN /\ ran' = <<Feedback, Query>>
                            /\ cpc' = "exit 0"
                            /\ UNCHANGED proc
                       ELSE IF launched
                       THEN /\ ran' = <<Feedback, Query, MainCommand(button, c)>>
                            /\ proc' = "running"
                            /\ cpc' = "wait"
                       ELSE /\ ran' = <<Feedback, Query>>
                            /\ cpc' = "raised"
                            /\ UNCHANGED proc
    /\ UNCHANGED argv
    /\ UNCHANGED exceptClick

\* The terminal closes: Enter was pressed or 'read -t' timed out.
TerminalExits ==
    /\ proc = "running"
    /\ proc' = "terminated"
    /\ ran' = Append(ran, TerminalExited)
    /\ UNCHANGED <<argv, outdated, cpc>>
    /\ UNCHANGED exceptClick

\* main from the return of proc.wait() to its end.
ClickAfterWait ==
    /\ cpc = "wait"
    /\ WaitReturns
    /\ ran' = Append(ran, Refresh)
    /\ cpc' = "exit 0"
    /\ UNCHANGED <<argv, outdated, proc>>
    /\ UNCHANGED exceptClick

Buttons == {"left", "right", "middle", "other"}
Widgets == {"brew", "brew_check", "homebrew"}
ArgVectors ==
    {<<"click_handler.py">>}
    \cup {<<"click_handler.py", b>> : b \in Buttons}
    \cup {<<"click_handler.py", b, w>> : b \in Buttons, w \in Widgets}

InitClick ==
    /\ NoLldb /\ NoFlatten /\ NoStow /\ NoTitles /\ NoFnm /\ NoBackup
    /\ argv \in ArgVectors
    /\ outdated = 0 /\ proc = "none" /\ ran = <<>>
    /\ cpc = "start"

NextClick == ClickMain \/ TerminalExits \/ ClickAfterWait

SpecClick == InitClick /\ [][NextClick]_vars

(***************************************************************************)
(* Reference notions the properties are stated with.  They are defined     *)
(* from the debuggee's memory alone, not from the traversals.              *)
(***************************************************************************)
NoDuplicates(seq) == Cardinality(Range(seq)) = Len(seq)
Last(seq) == seq[Len(seq)]
Prefix(seq, n) == SubSeq(seq, 1, IF n < Len(seq) THEN n ELSE Len(seq))
\* The entries of a summary that are node values.
Values(items) == SelectSeq(items, LAMBDA e : e # CYCLE)
Position(seq, x) == CHOOSE i \in DOMAIN seq : seq[i] = x

\* The child pointers of a dereferenceable node.
Pointers(a) == {left[a], right[a]} \ {0}

\* The dereferenceable nodes reachable from the root through dereferenceable
\* nodes (the pointers of a node that cannot be read lead nowhere).
RECURSIVE Closure(_)
Closure(S) ==
    LET T == S \cup {c \in valid : \E a \in S : c \in Pointers(a)}
    IN  IF T = S THEN S ELSE Closure(T)
ReachableNodes ==
    Closure(IF get_raw_pointer(root) # 0 /\ root \in valid THEN {root} ELSE {})

\* The pointers out of reachable nodes that lead to c, counted per field.
InDegree(c) ==
    Cardinality({a \in ReachableNodes : left[a] = c})
    + Cardinality({a \in ReachableNodes : right[a] = c})

\* The memory reachable from a non-null root is a tree: every pointer leads to
\* a dereferenceable node, nothing points to the root and exactly one pointer
\* leads to every other node.
IsTree ==
    /\ get_raw_pointer(root) # 0 /\ root \in valid
    /\ \A a \in ReachableNodes : Pointers(a) \subseteq valid
    /\ \A c \in ReachableNodes : InDegree(c) = (IF c = root THEN 0 ELSE 1)

\* On a tree: the nodes of the subtree at pointer p, and its pre-order.
RECURSIVE Subtree(_)
Subtree(p) == IF p = 0 THEN {} ELSE {p} \cup Subtree(left[p]) \cup Subtree(right[p])
RECURSIVE PreOrder(_)
PreOrder(p) == IF p = 0 THEN <<>> ELSE <<p>> \o PreOrder(left[p]) \o PreOrder(right[p])

\* The distinct nodes met following next from pointer p.
RECURSIVE Chain(_, _)
Chain(p, seen) ==
    IF get_raw_pointer(p) = 0 \/ p \in seen THEN <<>>
    ELSE <<p>> \o Chain(next[p], seen \cup {p})

Collectors == {"preorder", "inorder", "postorder"}
\* A traversal makes at most one call per pointer field of a visited node, and
\* a call takes at most five steps.
CollectStepBound == 1 + 5 * (1 + 2 * Cardinality(DOMAIN left))

(***************************************************************************)
(* C1.  Each of the three collectors terminates on every finite node graph *)
(* reachable from the root, cycles and shared nodes included, and its      *)
(* result holds every reachable dereferenceable node exactly once: a       *)
(* running collector can always take its next step, it takes a bounded     *)
(* number of steps, its list never holds an address twice, and the list it *)
(* returns holds exactly the reachable dereferenceable nodes.              *)
(***************************************************************************)
C1_CollectorsTerminateEachNodeOnce ==
    op \in Collectors =>
        /\ steps <= CollectStepBound
        /\ pc = "tree_run" => ENABLED NextTree
        /\ NoDuplicates(nodes_list)
        /\ pc = "done" =>
            /\ NoDuplicates(ret.items)
            /\ Range(ret.items) = ReachableNodes

\* A collector has returned all three nodes of a graph in which a pointer
\* leads back to the root and a node has several parents.
C1_Witness ==
    /\ op \in Collectors /\ pc = "done"
    /\ Len(ret.items) = 3
    /\ InDegree(root) > 0
    /\ \E c \in ReachableNodes \ {root} : InDegree(c) > 1

(***************************************************************************)
(* C4.  LinearContainerProvider.get_summary terminates on every list, also *)
(* a cyclic one (its loop can always take its next step and takes at most  *)
(* g_summary_max_items iterations and an exit); it emits at most           *)
(* g_summary_max_items element values, never the value of one address      *)
(* twice; and when following next comes back to a visited address before   *)
(* the limit, the summary is the values of the chain followed by the       *)
(* '[CYCLE DETECTED]' marker.                                              *)
(***************************************************************************)
ListLimit == modules["linear"].summary_max_items

C4_ListSummaryTerminatesBounded ==
    op = "list" =>
        /\ steps <= ListLimit + 2
        /\ pc = "list_loop" => ENABLED NextList
        /\ Len(Values(summary)) <= ListLimit
        /\ NoDuplicates(Values(summary))
        /\ pc = "done" =>
            /\ Len(Values(ret.items)) <= ListLimit
            /\ NoDuplicates(Values(ret.items))
            /\ \A i \in DOMAIN ret.items :
                    ret.items[i] = CYCLE => i = Len(ret.items)
            /\ LET chain == Chain(head, {}) IN
                (/\ ret.text = "summary" /\ chain # <<>>
                 /\ Range(chain) \subseteq valid
                 /\ next[Last(chain)] # 0
                 /\ Len(chain) < ListLimit)
                => ret.items = Append(chain, CYCLE)

\* get_summary has returned the 29 values of a cyclic list and the marker.
C4_Witness ==
    /\ op = "list" /\ pc = "done"
    /\ Len(ret.items) = ListLimit
    /\ Last(ret.items) = CYCLE

(***************************************************************************)
(* C5.  For binary trees _collect_nodes_inorder produces (Left, Root,      *)
(* Right): in its result every node of a node's left subtree comes before  *)
(* the node and every node of its right subtree after it, also for nodes   *)
(* with only a left or only a right child.                                 *)
(***************************************************************************)
C5_InorderIsLeftRootRight ==
    (op = "inorder" /\ pc = "done" /\ IsTree) =>
        \A n \in ReachableNodes :
            /\ \A m \in Subtree(left[n]) :
                    Position(ret.items, m) < Position(ret.items, n)
            /\ \A m \in Subtree(right[n]) :
                    Position(ret.items, n) < Position(ret.items, m)

(***************************************************************************)
(* C6.  TreeSummary lists node values in pre-order (a node before the      *)
(* nodes of its subtrees, the left subtree before the right one): on a     *)
(* tree its entries are the first g_summary_max_items entries of the       *)
(* pre-order.  On any memory it never lists more than g_summary_max_items  *)
(* entries, a '[CYCLE]' marker counting as one, and it answers 'Tree is    *)
(* empty' exactly for a missing or null root.                              *)
(***************************************************************************)
TreeLimit == modules["tree"].summary_max_items

C6_TreeSummaryPreorderBounded ==
    op = "TreeSummary" =>
        /\ Len(summary) <= TreeLimit
        /\ pc = "done" =>
            /\ Len(ret.items) <= TreeLimit
            /\ ret.text = "Tree is empty"
                    <=> (root = None \/ get_raw_pointer(root) = 0)
            /\ IsTree => ret.items = Prefix(PreOrder(root), TreeLimit)

\* TreeSummary has returned a summary that the limit cut on a tree in which
\* nodes have two children.
C6_Witness ==
    /\ op = "TreeSummary" /\ pc = "done" /\ IsTree
    /\ Len(ret.items) = TreeLimit
    /\ Cardinality(ReachableNodes) > TreeLimit
    /\ \E a \in ReachableNodes : left[a] # 0 /\ right[a] # 0


(***************************************************************************)
(* C2.  For a binary tree node GenericTreeProvider is self-consistent      *)
(* after update(): every index below num_children() yields a member with a *)
(* non-null pointer, distinct indices yield distinct members with left     *)
(* before right, and every index from num_children() on yields None.  A    *)
(* node with a null left and a non-null right pointer reports one child    *)
(* and yields the right member at index 0.                                 *)
(***************************************************************************)
C2_ProviderSelfConsistent ==
    (kind = "treenode" /\ fresh /\ ~valobj.has_children) =>
        LET n == provider.num_children_val
            child(i) == GetChildAtIndex(provider, valobj, i)
        IN  /\ \A i \in 0..MaxIndex :
                IF i < n
                THEN child(i).member # "" /\ get_raw_pointer(child(i).value) # 0
                ELSE child(i).member = ""
            /\ \A i, j \in 0..(n - 1) :
                i < j => child(i).member = "left" /\ child(j).member = "right"
            /\ (get_raw_pointer(valobj.left) = 0
                    /\ get_raw_pointer(valobj.right) # 0)
               => n = 1 /\ child(0).member = "right"
            /\ answer.call = "num_children" => answer.value = n
            /\ (answer.call = "get_child_at_index" /\ answer.index >= 0)
               => (answer.member # "" <=> answer.index < n)

\* After update(), LLDB got the right member at index 0 of a node whose left
\* pointer is null.
C2_Witness ==
    /\ kind = "treenode" /\ fresh /\ ~valobj.has_children
    /\ valobj.left = 0 /\ get_raw_pointer(valobj.right) # 0
    /\ answer.call = "get_child_at_index" /\ answer.index = 0
    /\ answer.member = "right"


(***************************************************************************)
(* C3.  The limits can be changed at runtime with formatter_config: after  *)
(* 'formatter_config summary_max_items N' succeeded (N >= 0), every later  *)
(* list summary and tree summary shows at most N element values; after     *)
(* 'formatter_config graph_max_neighbors N' succeeded, every later graph   *)
(* node summary shows at most N neighbours; and formatter_config without   *)
(* arguments reports the N last set.                                       *)
(***************************************************************************)
LastSet(key) == configured[key]
WasSet(key) == key \in DOMAIN configured /\ configured[key] >= 0

C3_ConfigLimitsLaterSummaries ==
    /\ (pc = "done" /\ op \in {"list", "TreeSummary"}
            /\ WasSet("summary_max_items"))
       => Len(Values(ret.items)) <= LastSet("summary_max_items")
    /\ (pc = "done" /\ op = "graphnode" /\ WasSet("graph_max_neighbors"))
       => Len(ret.items) <= LastSet("graph_max_neighbors")
    /\ (op = "config" /\ ret.text = "Current Formatter Settings:")
       => /\ WasSet("summary_max_items")
                => ret.items[1] = LastSet("summary_max_items")
          /\ WasSet("graph_max_neighbors")
                => ret.items[2] = LastSet("graph_max_neighbors")


(***************************************************************************)
(* C7.  find_payload_root descends to the directory that holds the         *)
(* configuration: for a package directory alacritty/ whose only entry is   *)
(* .config, and whose .config holds only the directory alacritty, the      *)
(* result is alacritty/.config/alacritty/.  The result is always the       *)
(* package directory or one of its descendants.                            *)
(***************************************************************************)
IsPath(n, path) ==
    \A i \in 1..Len(path) :
        LET d == NodeAt(n, SubSeq(path, 1, i - 1))
        IN  IsDir(d) /\ path[i] \in DOMAIN d.entries

DocstringExample ==
    /\ DOMAIN fs.src.entries = {".config"}
    /\ IsDir(fs.src.entries[".config"])
    /\ DOMAIN fs.src.entries[".config"].entries = {"alacritty"}
    /\ IsDir(fs.src.entries[".config"].entries["alacritty"])

C7_PayloadRootDescends ==
    fpc = "done" =>
        /\ IsPath(fs.src, report.payload_root)
        /\ IsDir(NodeAt(fs.src, report.payload_root))
        /\ DocstringExample => report.payload_root = <<".config", "alacritty">>

(***************************************************************************)
(* C8.  With --force and without --dry-run, when the run completes every   *)
(* package whose destination folder existed before has a destination       *)
(* folder that holds a copy of the package's payload: the old folder is    *)
(* never removed without being replaced.                                   *)
(***************************************************************************)
StowPackages ==
    IF IsDir(fs0.src)
    THEN {name \in DOMAIN fs0.src.entries :
              IsDir(fs0.src.entries[name]) /\ ~Hidden(name)}
    ELSE {}
Payload(program_name) ==
    LET package_dir == fs0.src.entries[program_name]
    IN  NodeAt(package_dir, find_payload_root(<<>>, package_dir)).entries
HadFolder(program_name) ==
    Exists(fs0.dst, program_name) /\ IsDir(fs0.dst.entries[program_name])

C8_ForceReplacesExisting ==
    (fpc = "done" /\ args.force /\ ~args.dry_run) =>
        \A program_name \in StowPackages :
            HadFolder(program_name) =>
                /\ Exists(fs.dst, program_name)
                /\ fs.dst.entries[program_name] = Dir(Payload(program_name))

(***************************************************************************)
(* C9.  Without --force a destination that already exists is left as it    *)
(* was, the package is reported as failed and skipped, and the run goes on *)
(* to the remaining packages: it completes with every package processed,   *)
(* and those with a payload and no destination are copied.                 *)
(***************************************************************************)
C9_NoForceKeepsExisting ==
    (~args.force /\ IsDir(fs0.dst) /\ fpc # "idle") =>
        /\ \A program_name \in DOMAIN fs0.dst.entries :
                /\ Exists(fs.dst, program_name)
                /\ fs.dst.entries[program_name] = fs0.dst.entries[program_name]
                /\ program_name \in DOMAIN report =>
                        report[program_name] = "FAIL: already exists"
        /\ fpc # "crashed"
        /\ fpc \in {"start", "loop"} => ENABLED NextFlatten
        /\ fpc = "loop" =>
                DOMAIN report \cup todo = StowPackages
        /\ fpc = "done" =>
                /\ DOMAIN report = StowPackages
                /\ \A program_name \in StowPackages \ DOMAIN fs0.dst.entries :
                        (Payload(program_name) # <<>> /\ ~args.dry_run) =>
                            /\ Exists(fs.dst, program_name)
                            /\ fs.dst.entries[program_name]
                                    = Dir(Payload(program_name))

\* An existing destination was skipped and a later package was copied.
C9_Witness ==
    /\ ~args.force /\ ~args.dry_run /\ fpc = "done"
    /\ \E p, q \in StowPackages :
        /\ HadFolder(p) /\ report[p] = "FAIL: already exists"
        /\ ~Exists(fs0.dst, q) /\ Exists(fs.dst, q)

(***************************************************************************)
(* C10.  With --dry-run the filesystem is never changed, whatever the      *)
(* other options: no directory is created, removed or copied.              *)
(***************************************************************************)
C10_DryRunChangesNothing ==
    (args.dry_run /\ fpc # "idle") => fs = fs0

\* A dry run with --force completed over an existing destination folder
\* and a missing one, and a dry run found no destination directory.
C10_Witness ==
    /\ args.dry_run /\ args.force /\ fpc = "done"
    /\ \E p, q \in StowPackages :
        /\ HadFolder(p) /\ report[p] = "Copying to"
        /\ ~Exists(fs0.dst, q) /\ report[q] = "Copying to"

(***************************************************************************)
(* C11.  create_stow_dirs removes an existing target package (directory,   *)
(* file or symbolic link) only in an iteration that read an answer to the  *)
(* overwrite prompt which is y, yes, s or si in any letter case.  An       *)
(* iteration that read any other answer, the empty one included, leaves    *)
(* the whole target directory as it was and reports the package as skipped *)
(* by the user.                                                            *)
(***************************************************************************)
YesAnswers == {<<"y">>, <<"y", "e", "s">>, <<"s">>, <<"s", "i">>}
Entry(d, name) == IF IsDir(d) /\ name \in DOMAIN d.entries
                  THEN d.entries[name] ELSE Absent

C11_StowOverwriteOnlyOnYes ==
    [][(fpc = "loop" /\ todo # {}) =>
        LET package_name == FirstOf(todo) IN
        /\ \A name \in Range(SortedNames) :
            (Entry(fs.dst, name) # Absent
                /\ Entry(fs'.dst, name) # Entry(fs.dst, name)) =>
                    /\ name = package_name
                    /\ stdin'.kind = "line"
                    /\ Lower(stdin'.text) \in YesAnswers
        /\ (stdin'.kind = "line" /\ Lower(stdin'.text) \notin YesAnswers) =>
                /\ fs' = fs
                /\ report'[package_name] = "Skipped by user"
        /\ (stdin'.kind = "line" /\ stdin'.text = <<>>) =>
                fs' = fs
      ]_vars

\* An existing target was replaced by the package after the answer "Yes",
\* with a capital letter.
C11_Witness ==
    /\ stdin = [kind |-> "line", text |-> <<"Y", "e", "s">>]
    /\ \E name \in DOMAIN report :
        /\ report[name] = "Created Stow package"
        /\ Entry(fs0.dst, name) = Symlink
        /\ Entry(fs.dst, name) = StowPackage(name, fs.src.entries[name])

(***************************************************************************)
(* C12.  With --dry-run create_stow_dirs changes nothing in the filesystem *)
(* and never reads an answer, also when a target package exists.  In every *)
(* mode, a target entry that was created or changed is the package of a    *)
(* source directory whose name is not in EXCLUDE_DIRS.                     *)
(***************************************************************************)
C12_StowDryRunAndExclusions ==
    fpc # "idle" =>
        /\ args.dry_run => (fs = fs0 /\ stdin = NoInput)
        /\ \A name \in Range(SortedNames) :
            Entry(fs.dst, name) # Entry(fs0.dst, name) =>
                /\ IsDir(Entry(fs0.src, name))
                /\ name \notin EXCLUDE_DIRS
                /\ Entry(fs.dst, name) = StowPackage(name, fs0.src.entries[name])

\* A dry run completed over an existing target package, an excluded
\* directory and a file of the source.
C12_Witness ==
    /\ args.dry_run /\ fpc = "done"
    /\ DOMAIN report = Range(SortedNames)
    /\ report["kitty"] = "DRY-RUN: Would ask for overwrite confirmation"
    /\ Entry(fs.src, "nvim").type = "file"
    /\ report["zsh"] = "Skipped (excluded)"

(***************************************************************************)
(* C14.  Every title generate_title produces is at most 60 characters      *)
(* long, for every message text.                                           *)
(***************************************************************************)
C14_TitleAtMost60 ==
    tpc = "done" => Len(new_title) <= 60

(***************************************************************************)
(* C13.  A run of fix_all_titles without --dry-run keeps the number and    *)
(* the order of the history entries and every field but display, and       *)
(* leaves every entry whose display is not a corrupted title as it was.    *)
(***************************************************************************)
SameData(a, b) ==
    /\ a.json = b.json
    /\ a.sessionId = b.sessionId /\ a.display = b.display
    /\ a.project = b.project
    /\ ~a.json => a = b

C13_OnlyCorruptedDisplaysChange ==
    (tpc = "done" /\ ~args.dry_run) =>
        /\ Len(history) = Len(history0)
        /\ \A k \in DOMAIN history0 :
            /\ SameData([history[k] EXCEPT !.display = history0[k].display],
                        history0[k])
            /\ ~is_corrupted_title(history0[k].display) =>
                    SameData(history[k], history0[k])

(***************************************************************************)
(* C15.  fnm_cleanup removes a symbolic link only if both the link itself  *)
(* (mtime) and its target (atime) have been inactive for more than 24      *)
(* hours: a link younger than 24 hours is never removed, and no entry that *)
(* is not a symbolic link is removed.                                      *)
(***************************************************************************)
DayInSeconds == 24 * 60 * 60
LinkAge(e) == current_time - e.st_mtime
TargetInactive(e) == current_time - e.st_atime

C16_BackupBeforeRewrite ==
    (bpc # "idle" /\ (script = "images" \/ access.backup_dir)) =>
        (md_file # md_file0 =>
            /\ backup_path # ""
            /\ md_file0 \in backups)

(***************************************************************************)
(* C17.  export_tree with a traversal order labels the nodes with their    *)
(* 1-based index in that traversal: every node defined in the .dot content *)
(* carries the index of its place in the collected order, the indices used *)
(* are exactly 1..n for n defined nodes, none repeated, and each address   *)
(* is defined at most once, also with shared nodes and cycles.             *)
(***************************************************************************)
DotNodes(lines) == SelectSeq(lines, LAMBDA l : l.kind = "node")

C17_DotNodesIndexedOnce ==
    (pc = "done" /\ op \in ExportOps \ {"export_tree"} /\ ret.text = "dot") =>
        LET defined == DotNodes(ret.items)
            n == Len(defined)
        IN  /\ \A k \in 1..n :
                /\ defined[k].index # 0
                /\ defined[k].index \in DOMAIN nodes_list
                /\ nodes_list[defined[k].index] = defined[k].addr
            /\ {defined[k].index : k \in 1..n} = 1..n
            /\ \A j, k \in 1..n :
                j # k => /\ defined[j].index # defined[k].index
                         /\ defined[j].addr # defined[k].addr

\* An in-order export of a structure with a cycle or a shared node defined
\* three nodes.
C17_Witness ==
    /\ pc = "done" /\ op = "export_tree inorder" /\ ret.text = "dot"
    /\ Len(DotNodes(ret.items)) = 3
    /\ \E a \in valid : InDegree(a) >= 2

(***************************************************************************)
(* C19.  In export_tree_web the traversal-order list is the sequence of    *)
(* the ids of the node list, in the same order: _collect_nodes_preorder    *)
(* and _build_visjs_data visit the same nodes in the same order on every   *)
(* structure, node ids are unique, and the 'from' end of every edge is the *)
(* id of a listed node.                                                    *)
(***************************************************************************)
C19_WebOrderMatchesNodeList ==
    (pc = "done" /\ op = "export_tree_web" /\ ret.text = "html") =>
        /\ ret.items = summary.nodes_list
        /\ NoDuplicates(summary.nodes_list)
        /\ \A k \in DOMAIN summary.edges_list :
                summary.edges_list[k].from \in Range(summary.nodes_list)

\* The page was built for a structure with a cycle or a shared node and a
\* pointer that cannot be dereferenced: three nodes, an edge to a node that
\* is not listed.
C19_Witness ==
    /\ pc = "done" /\ op = "export_tree_web" /\ ret.text = "html"
    /\ Len(ret.items) >= 2
    /\ \E a \in valid : InDegree(a) >= 2
    /\ \E k \in DOMAIN summary.edges_list :
            summary.edges_list[k].to \notin Range(summary.nodes_list)

(***************************************************************************)
(* C18.  After a click with button left or right, click_handler sends the  *)
(* refresh signal exactly once, and only after the terminal process it     *)
(* opened has terminated; a middle click sends the refresh signal without  *)
(* querying the count or opening a terminal; any other button opens no     *)
(* terminal and sends no refresh signal.                                   *)
(***************************************************************************)
Occurrences(seq, x) == Len(SelectSeq(seq, LAMBDA e : e = x))
TerminalsOpened == Len(SelectSeq(ran, LAMBDA e : e \in TerminalCommands))

C18_RefreshAfterTerminal ==
    Len(argv) >= 3 =>
        LET button == argv[2] IN
        /\ button \in {"left", "right"} =>
            /\ Occurrences(ran, Refresh) <= 1
            /\ Refresh \in Range(ran) =>
                /\ proc = "terminated"
                /\ TerminalsOpened = 1
                /\ Position(ran, TerminalExited) < Position(ran, Refresh)
            /\ cpc = "exit 0" => Occurrences(ran, Refresh) = 1
        /\ (button = "middle" /\ cpc = "exit 0") =>
            /\ Occurrences(ran, Refresh) = 1
            /\ Query \notin Range(ran)
            /\ TerminalsOpened = 0 /\ proc = "none"
        /\ button \notin {"left", "right", "middle"} =>
            /\ Refresh \notin Range(ran)
            /\ TerminalsOpened = 0 /\ proc = "none"

\* A right click with outdated packages ran the upgrade in a terminal and
\* the handler ended after the terminal closed.
C18_Witness ==
    /\ Len(argv) >= 3 /\ argv[2] = "right"
    /\ outdated > 0
    /\ cpc = "exit 0"
    /\ "kitty: brew upgrade" \in Range(ran)
    /\ Refresh \in Range(ran)
=============================================================================
